---------------------------- MODULE Spec2Model ----------------------------
(***************************************************************************)
(* A model of the Backup program (BeenEncoded/Backup):                     *)
(*   - BackupMapping          (src/src/data.py)                            *)
(*   - recursivecopy.__init__ (src/src/iterator.py)                        *)
(*   - recursivecopy._copy_file, the fan-out copy of one file              *)
(*   - Backup.execute, the driver: copy phase, then prune phase            *)
(*   - ThreadPool and ThreadManager (src/src/threads.py)                   *)
(*                                                                         *)
(* Each part has its own specification over its own group of variables;   *)
(* the variables of the other groups stay at their initial values.         *)
(*   SpecMap   the source-to-destination map                               *)
(*   SpecCtor  the construction of a copier                                *)
(*   SpecFile  one file copied to several destinations, block by block     *)
(*   SpecRun   the driver run twice over a source tree and destinations    *)
(*   SpecPool  the pool: caller, scheduler thread and driver threads       *)
(*   SpecPoolLive  the pool without shutdown, under fair scheduling        *)
(*   SpecIgnore  the ignore set of the driver (src/src/algorithms.py)      *)
(*   SpecProfile the profile collection and the widget that edits it       *)
(*   SpecJson  the profile document written and read back                  *)
(*   SpecLoad  BackupMapping.load of a mapping document                    *)
(*   SpecWalk  class recursive, one call of __next__ at a time             *)
(*   SpecPath  ischild and split_path on absolute paths                    *)
(*   SpecExec  the drivers of one profile and the prune of the profile     *)
(*   SpecTouch the paths that the steps of a constructed copier change     *)
(***************************************************************************)
EXTENDS Integers, Sequences, FiniteSets, TLC

VARIABLES
    \* ---- BackupMapping (data.py) ----
    sourcemap,      \* BackupMapping.sourcemap: source path -> code
    backup_id,      \* BackupMapping.backup_id
    mapOp,          \* the last operation called on the mapping
    prevmap,        \* sourcemap as it was before that operation
    mapCall,        \* that operation's argument and the codes it assigned
    \* ---- recursivecopy.__init__ (iterator.py) ----
    ctor_args,      \* root_path, destination_folders, newdestname
    ctor_dirs,      \* the paths for which os.path.isdir is true
    ctor_result,    \* "pending", "ok" or the name of the exception raised
    copier,         \* the object constructed: _source, _destinations
    \* ---- recursivecopy._copy_file (iterator.py) ----
    cf_src,         \* the source file: its data and mtime
    cf_dsts,        \* the destination paths: what each holds
    cf_env,         \* what the operating system does with each call
    cf_result,      \* <<>>, or <<r>> once _copy_file ended with r
    \* ---- Backup.execute (algorithms.py) ----
    source_tree,    \* what the paths of the source directory hold
    dest_trees,     \* per destination D: what the paths of D/map(S) hold
    destinations,   \* Backup.destinations
    pc,             \* where Backup.execute is
    iterator,       \* the paths the copying iterator has yet to yield
    pruning,        \* the destination being pruned and recursiveprune.todelete
    abort,          \* Backup.abort
    history,        \* per run: errors reported, writes, deletions, abort
    before_prune,   \* dest_trees when the prune phase of the run began
    messages,       \* what the run has sent to its three callbacks, in order
    sources_count,  \* execute's count of the entries of the source
    sources_copied, \* execute's count of the steps of the copy loop
    status,         \* Backup.status.percent, the fraction num / den
    \* ---- ThreadPool and ThreadManager (threads.py) ----
    toadd,          \* ThreadManager.toadd, the producer queue
    threadqueue,    \* ThreadPool.threadqueue
    runningthreads, \* ThreadPool.runningthreads
    noadd,          \* ThreadPool.noadd
    maxcount,       \* ThreadPool.maxcount
    threads,        \* per driver thread: "new", "alive" or "dead"
    joined,         \* the drivers on which a join() has returned
    sched,          \* the scheduler thread: position in run/doWork, locals
    halter,         \* the caller's thread: position in halt_thread, locals
    stopthread,     \* Worker._stopthread of the scheduler
    late_started,   \* the drivers started when noadd was already set
    \* ---- Backup.__init__ and the error loop of execute (algorithms.py) ----
    ignorederrors,  \* CONFIG["DEFAULT"]["ignorederrors"]: the names, in order
    ignored_errors, \* Backup.ignored_errors, <<>> before __init__ or <<set>>
    step_errors,    \* the variants of the errors one copy step yielded
    reported,       \* <<>>, or <<list>> of what report_error was called with
    \* ---- ProgramData.profiles and EditBackupProfileWidget (data.py, UI) ----
    profiles,       \* ProgramData.profiles: the list of BackupProfile
    profile_file,   \* the profiles of the file at profilepath
    editor,         \* <<>>, or <<p>>: EditBackupProfileWidget._profile
    \* ---- the profile document (SpecJson) ----
    json_profiles,  \* the list of profiles that writejson is given
    json_file,      \* <<>> or <<the document of the file>>
    json_loaded,    \* <<>> or <<the list that readjson returned>>
    \* ---- loading a mapping document (SpecLoad) ----
    bm,             \* the BackupMapping: its sourcemap and its backup_id
    bm_file,        \* what is at the path given to load
    bm_before,      \* the BackupMapping as it was when load was called
    bm_result,      \* "none", "True", "False" or the exception that load raised
    \* ---- class recursive over a directory (SpecWalk) ----
    walk_tree,      \* the kind of entry at every path below the root
    walk_order,     \* the order in which a directory read lists the names
    walk_stack,     \* os.walk: the directories it has yet to list
    rec,            \* the fields of the recursive object
    yielded,        \* the paths that next() has returned, in order
    walk_done,      \* next() has raised StopIteration
    \* ---- ischild and split_path (SpecPath) ----
    sp_parent,      \* the names of the parent path, from the filesystem root
    sp_child,       \* the names of the child path, from the filesystem root
    sp_ischild,     \* <<>>, or <<what ischild(parent, child) returned>>
    sp_split,       \* <<>>, or the pair that split_path(parent, child) returned
    \* ---- the backup of one profile and its prune (SpecExec) ----
    frontend,       \* "ui" (ExecuteBackupWidget) or "cli" (run_backup)
    executions,     \* per source: its driver, complete, hidden
    posted,         \* the exec_finished signals queued for the main thread
    run_pc,         \* where run_backup is
    prunestarts,    \* how many times the prune of the profile was started
    \* ---- the paths a step of a copier changes (SpecTouch) ----
    touched         \* the last step: what it was and the paths it changed

mapVars == <<sourcemap, backup_id, mapOp, prevmap, mapCall>>

ctorVars == <<ctor_args, ctor_dirs, ctor_result, copier>>

fileVars == <<cf_src, cf_dsts, cf_env, cf_result>>

runVars == <<source_tree, dest_trees, destinations, pc, iterator, pruning,
             abort, history, before_prune, messages, sources_count,
             sources_copied, status>>

poolVars == <<toadd, threadqueue, runningthreads, noadd, maxcount, threads,
              joined, sched, halter, stopthread, late_started>>

ignoreVars == <<ignorederrors, ignored_errors, step_errors, reported>>

profileVars == <<profiles, profile_file, editor>>

jsonVars == <<json_profiles, json_file, json_loaded>>

loadVars == <<bm, bm_file, bm_before, bm_result>>

walkVars == <<walk_tree, walk_order, walk_stack, rec, yielded, walk_done>>

pathVars == <<sp_parent, sp_child, sp_ischild, sp_split>>

execVars == <<frontend, executions, posted, run_pc, prunestarts>>

touchVars == <<touched>>

vars == <<mapVars, ctorVars, fileVars, runVars, poolVars, ignoreVars,
          profileVars, jsonVars, loadVars, walkVars, pathVars, execVars,
          touchVars>>

nonMapVars == <<ctorVars, fileVars, runVars, poolVars, ignoreVars,
                profileVars, jsonVars, loadVars, walkVars, pathVars, execVars,
                touchVars>>

nonCtorVars == <<mapVars, fileVars, runVars, poolVars, ignoreVars,
                 profileVars, jsonVars, loadVars, walkVars, pathVars,
                 execVars, touchVars>>

nonFileVars == <<mapVars, ctorVars, runVars, poolVars, ignoreVars,
                 profileVars, jsonVars, loadVars, walkVars, pathVars,
                 execVars, touchVars>>

nonRunVars == <<mapVars, ctorVars, fileVars, poolVars, ignoreVars,
                profileVars, jsonVars, loadVars, walkVars, pathVars, execVars,
                touchVars>>

nonPoolVars == <<mapVars, ctorVars, fileVars, runVars, ignoreVars,
                 profileVars, jsonVars, loadVars, walkVars, pathVars,
                 execVars, touchVars>>

nonIgnoreVars == <<mapVars, ctorVars, fileVars, runVars, poolVars,
                   profileVars, jsonVars, loadVars, walkVars, pathVars,
                   execVars, touchVars>>

nonProfileVars == <<mapVars, ctorVars, fileVars, runVars, poolVars,
                    ignoreVars, jsonVars, loadVars, walkVars, pathVars,
                    execVars, touchVars>>

nonJsonVars == <<mapVars, ctorVars, fileVars, runVars, poolVars, ignoreVars,
                 profileVars, loadVars, walkVars, pathVars, execVars,
                 touchVars>>

nonLoadVars == <<mapVars, ctorVars, fileVars, runVars, poolVars, ignoreVars,
                 profileVars, jsonVars, walkVars, pathVars, execVars,
                 touchVars>>

nonWalkVars == <<mapVars, ctorVars, fileVars, runVars, poolVars, ignoreVars,
                 profileVars, jsonVars, loadVars, pathVars, execVars,
                 touchVars>>

nonPathVars == <<mapVars, ctorVars, fileVars, runVars, poolVars, ignoreVars,
                 profileVars, jsonVars, loadVars, walkVars, execVars,
                 touchVars>>

nonExecVars == <<mapVars, ctorVars, fileVars, runVars, poolVars, ignoreVars,
                 profileVars, jsonVars, loadVars, walkVars, pathVars,
                 touchVars>>

nonTouchVars == <<mapVars, ctorVars, fileVars, runVars, poolVars, ignoreVars,
                  profileVars, jsonVars, loadVars, walkVars, pathVars,
                  execVars>>

\* The values a group of variables keeps under the specifications of the
\* other groups.
NoCopier == [_source |-> <<>>, _destinations |-> <<>>, constructed |-> FALSE]

IdleMap ==
    /\ sourcemap = [k \in {} |-> <<>>]
    /\ backup_id = 0
    /\ mapOp = "new"
    /\ prevmap = [k \in {} |-> <<>>]
    /\ mapCall = [sources |-> <<>>, assigned |-> <<>>, freed_before |-> <<>>,
                  freed |-> <<>>]

IdleCtor ==
    /\ ctor_args = [root_path |-> [kind |-> "None"],
                    destination_folders |-> [kind |-> "None"],
                    newdestname |-> [kind |-> "None"]]
    /\ ctor_dirs = {}
    /\ ctor_result = "pending"
    /\ copier = NoCopier

IdleFile ==
    /\ cf_src = <<>>
    /\ cf_dsts = <<>>
    /\ cf_env = <<>>
    /\ cf_result = <<>>

IdleRun ==
    /\ source_tree = <<>>
    /\ dest_trees = <<>>
    /\ destinations = <<>>
    /\ pc = "idle"
    /\ iterator = <<>>
    /\ pruning = [dest |-> 0, todelete |-> {}]
    /\ abort = FALSE
    /\ history = <<>>
    /\ before_prune = <<>>
    /\ messages = <<>>
    /\ sources_count = 0
    /\ sources_copied = 0
    /\ status = [num |-> 0, den |-> 1]

IdlePool ==
    /\ toadd = <<>>
    /\ threadqueue = <<>>
    /\ runningthreads = {}
    /\ noadd = FALSE
    /\ maxcount = 0
    /\ threads = <<>>
    /\ joined = {}
    /\ sched = [pc |-> "stopped", x |-> 0, toremove |-> {}]
    /\ halter = [pc |-> "idle", submitted |-> 0, toremove |-> {},
                 orig |-> {}, visited |-> {}, size |-> 0, cur |-> 0]
    /\ stopthread = FALSE
    /\ late_started = {}

IdleIgnore ==
    /\ ignorederrors = <<>>
    /\ ignored_errors = <<>>
    /\ step_errors = <<>>
    /\ reported = <<>>

IdleProfile ==
    /\ profiles = <<>>
    /\ profile_file = <<>>
    /\ editor = <<>>

IdleJson ==
    /\ json_profiles = <<>>
    /\ json_file = <<>>
    /\ json_loaded = <<>>

IdleLoad ==
    /\ bm = [sourcemap |-> <<>>, backup_id |-> 0]
    /\ bm_file = [kind |-> "missing"]
    /\ bm_before = [sourcemap |-> <<>>, backup_id |-> 0]
    /\ bm_result = "none"

IdleWalk ==
    /\ walk_tree = <<>>
    /\ walk_order = <<>>
    /\ walk_stack = <<>>
    /\ rec = <<>>
    /\ yielded = <<>>
    /\ walk_done = FALSE

IdlePath ==
    /\ sp_parent = <<>>
    /\ sp_child = <<>>
    /\ sp_ischild = <<>>
    /\ sp_split = <<>>

IdleExec ==
    /\ frontend = "none"
    /\ executions = <<>>
    /\ posted = <<>>
    /\ run_pc = "none"
    /\ prunestarts = 0

IdleTouch ==
    /\ touched = [op |-> "none", paths |-> {}]

(***************************************************************************)
(* Helpers on sequences and functions.                                     *)
(***************************************************************************)
Range(s) == {s[i] : i \in 1..Len(s)}

SeqsUpTo(S, n) == UNION {[1..k -> S] : k \in 0..n}

\* A Python dict: a function whose domain is the set of its keys.
EmptyDict == [k \in {} |-> <<>>]

DictSet(d, k, v) == [x \in (DOMAIN d) \cup {k} |-> IF x = k THEN v ELSE d[x]]

DictDel(d, k) == [x \in (DOMAIN d) \ {k} |-> d[x]]

DictValues(d) == {d[k] : k \in DOMAIN d}

(***************************************************************************)
(* BackupMapping                                                           *)
(***************************************************************************)
\* The sources a profile may name, and the profile IDs.
SourcePaths == {"/src/x", "/src/y", "/src/z"}

ProfileIds == {1}

\* The longest list of sources of a profile.
MaxProfileLen == 2

Profiles == [ID : ProfileIds, sources : SeqsUpTo(SourcePaths, MaxProfileLen)]

HexDigits == <<"0", "1", "2", "3", "4", "5", "6", "7",
               "8", "9", "A", "B", "C", "D", "E", "F">>

RECURSIVE HexString(_)
\* The upper-case hexadecimal digits of n, most significant first.
HexString(n) ==
    IF n < 16 THEN <<HexDigits[n + 1]>>
    ELSE Append(HexString(n \div 16), HexDigits[(n % 16) + 1])

\* format(key, "03X"): upper-case hex, padded with zeros to at least 3 digits.
Format03X(key) ==
    LET h == HexString(key)
    IN  IF Len(h) >= 3 THEN h
        ELSE [i \in 1..(3 - Len(h)) |-> "0"] \o h

RECURSIVE NewKeyFrom(_, _)
\* The while loop of _new_key: count up from key until the code is unused.
NewKeyFrom(used_keys, key) ==
    IF Format03X(key) \in used_keys THEN NewKeyFrom(used_keys, key + 1)
    ELSE Format03X(key)

\* A _new_key that counts up from 0.
NewKeyFromZero(m) == NewKeyFrom(DictValues(m), 0)

\* A _new_key that does not look at the codes in use.
NewKeyIgnoringUsed(m) == Format03X(1)

\* BackupMapping._new_key
NewKey(m) == NewKeyFrom(DictValues(m), 1)

\* BackupMapping.map_source on the dict m
MapSource(m, sourcepath) == DictSet(m, sourcepath, NewKey(m))

\* BackupMapping.remove_source on the dict m
RemoveSource(m, sourcepath) ==
    IF sourcepath \in DOMAIN m THEN DictDel(m, sourcepath) ELSE m

RECURSIVE MapAll(_, _)
\* for source in sources: self.map_source(source)   -- in list order
MapAll(m, sources) ==
    IF sources = <<>> THEN m
    ELSE MapAll(MapSource(m, Head(sources)), Tail(sources))

RECURSIVE Assignments(_, _)
\* The calls of _new_key made by `for source in sources: map_source(source)`:
\* for each, the source, the codes held by the keys at that moment, and the
\* code returned.
Assignments(m, sources) ==
    IF sources = <<>> THEN <<>>
    ELSE <<[source |-> Head(sources), used |-> DictValues(m), code |-> NewKey(m)]>>
         \o Assignments(MapSource(m, Head(sources)), Tail(sources))

\* What is kept of a call: the sources it was given, the assignments it
\* made, the code the call before it freed and the code it freed.
CallOf(sources, assigned, freed) ==
    [sources |-> sources, assigned |-> assigned,
     freed_before |-> mapCall.freed, freed |-> freed]

\* BackupMapping.generate_map: the dict after the call
GenerateMap(m, profile) == MapAll(m, profile.sources)

RECURSIVE DelAll(_, _)
DelAll(m, keys) ==
    IF keys = {} THEN m
    ELSE LET k == CHOOSE x \in keys : TRUE
         IN  DelAll(DictDel(m, k), keys \ {k})

\* The orders in which a Python set of the given elements may be iterated.
Orders(S) == {o \in [1..Cardinality(S) -> S] : Range(o) = S}

\* A synchronize_map that maps every source of the profile again.
SynchronizeRemapping(m, profile, order) == MapAll(EmptyDict, profile.sources)

\* BackupMapping.synchronize_map: the dict after the call; order is the
\* iteration order of the set toadd.
SynchronizeMap(m, profile, order) ==
    LET todelete == (DOMAIN m) \ Range(profile.sources)
    IN  MapAll(DelAll(m, todelete), order)

ToAdd(m, profile) == Range(profile.sources) \ (DOMAIN m)

\* BackupMapping(): the dataclass defaults
InitMap == IdleMap

generate_map ==
    \E profile \in Profiles :
        /\ sourcemap' = GenerateMap(sourcemap, profile)
        /\ backup_id' = profile.ID
        /\ mapOp' = "generate_map"
        /\ prevmap' = sourcemap
        /\ mapCall' = CallOf(profile.sources,
                             Assignments(sourcemap, profile.sources), <<>>)
        /\ UNCHANGED nonMapVars

\* synchronize_map reads only profile.sources, so the profile's ID is left
\* out of the choice of its input.
synchronize_map ==
    \E sources \in SeqsUpTo(SourcePaths, MaxProfileLen) :
      LET profile == [ID |-> backup_id, sources |-> sources] IN
        \E order \in Orders(ToAdd(sourcemap, profile)) :
            /\ sourcemap' = SynchronizeMap(sourcemap, profile, order)
            /\ mapOp' = "synchronize_map"
            /\ prevmap' = sourcemap
            /\ mapCall' = CallOf(sources,
                                 Assignments(DelAll(sourcemap,
                                     (DOMAIN sourcemap) \ Range(sources)), order),
                                 <<>>)
            /\ UNCHANGED nonMapVars
            /\ UNCHANGED backup_id

map_source ==
    \E s \in SourcePaths :
        /\ sourcemap' = MapSource(sourcemap, s)
        /\ mapOp' = "map_source"
        /\ prevmap' = sourcemap
        /\ mapCall' = CallOf(<<s>>, Assignments(sourcemap, <<s>>), <<>>)
        /\ UNCHANGED nonMapVars
        /\ UNCHANGED backup_id

remove_source ==
    \E s \in SourcePaths :
        /\ sourcemap' = RemoveSource(sourcemap, s)
        /\ mapOp' = "remove_source"
        /\ prevmap' = sourcemap
        /\ mapCall' = CallOf(<<s>>, <<>>,
                             IF s \in DOMAIN sourcemap THEN <<sourcemap[s]>>
                             ELSE <<>>)
        /\ UNCHANGED nonMapVars
        /\ UNCHANGED backup_id

NextMap ==
    \/ generate_map
    \/ synchronize_map
    \/ map_source
    \/ remove_source

InitSpecMap == InitMap /\ IdleCtor /\ IdleFile /\ IdleRun /\ IdlePool /\ IdleIgnore /\ IdleProfile /\ IdleJson /\ IdleLoad /\ IdleWalk /\ IdlePath /\ IdleExec /\ IdleTouch

SpecMap == InitSpecMap /\ [][NextMap]_vars

(***************************************************************************)
(* Claims about the mapping                                                *)
(***************************************************************************)

\* C9 (mapping stability): a synchronize_map call leaves the code of every
\* source that is a key before and after the call exactly as it was.
C9_SurvivorsKeepCode ==
    mapOp = "synchronize_map" =>
        \A s \in (DOMAIN prevmap) \cap (DOMAIN sourcemap) :
            sourcemap[s] = prevmap[s]

\* A synchronize_map that removed a source, added a source and kept a source.
C9_Witness ==
    /\ mapOp = "synchronize_map"
    /\ (DOMAIN prevmap) \ (DOMAIN sourcemap) # {}
    /\ (DOMAIN sourcemap) \ (DOMAIN prevmap) # {}
    /\ (DOMAIN prevmap) \cap (DOMAIN sourcemap) # {}

\* C10 (mapping uniqueness): no two distinct keys of the mapping hold the
\* same code, after any sequence of calls from the empty mapping.
C10_CodesDistinct ==
    \A s, t \in DOMAIN sourcemap : s # t => sourcemap[s] # sourcemap[t]

\* A source already mapped was mapped again (by map_source, or by a
\* generate_map naming it) next to two other keys: the keys are the same as
\* before the call and a code has changed.
C10_Witness ==
    /\ mapOp \in {"map_source", "generate_map"}
    /\ Cardinality(DOMAIN sourcemap) = 3
    /\ DOMAIN prevmap = DOMAIN sourcemap
    /\ prevmap # sourcemap

\* C11 (mapping key set): right after generate_map(profile) or
\* synchronize_map(profile) the keys of the mapping are exactly the sources
\* of the profile, whatever the mapping held before.
C11_KeysAreProfileSources ==
    mapOp \in {"generate_map", "synchronize_map"} =>
        DOMAIN sourcemap = Range(mapCall.sources)

\* A generate_map on a mapping that held a key for a source the profile
\* does not name: the key is still there.
C11_StaleKeyKept ==
    /\ mapOp = "generate_map"
    /\ \E s \in DOMAIN prevmap :
          s \notin Range(mapCall.sources) /\ s \in DOMAIN sourcemap

\* The codes: three characters, each an upper-case hexadecimal digit.
IsThreeHex(code) ==
    /\ Len(code) = 3
    /\ \A i \in 1..3 : \E d \in 1..16 : code[i] = HexDigits[d]

\* The number a code of three hexadecimal digits writes.
ValueOf(code) ==
    LET digit(c) == (CHOOSE d \in 1..16 : HexDigits[d] = c) - 1
    IN  256 * digit(code[1]) + 16 * digit(code[2]) + digit(code[3])

\* code is the smallest of 001, 002, ... that is not in used.
IsSmallestUnused(code, used) ==
    /\ IsThreeHex(code)
    /\ ValueOf(code) >= 1
    /\ code \notin used
    /\ \A c \in used : IsThreeHex(c)
    /\ \A n \in 1..(ValueOf(code) - 1) : \E c \in used : ValueOf(c) = n

\* C12 (smallest unused code): every code assigned by generate_map,
\* map_source or synchronize_map is three upper-case hex digits, is not
\* "000" and is the smallest value from 0x001 up that no key holds at the
\* moment of the assignment; a code freed by the remove_source just before
\* is the one reused when it is the smallest unused one.
C12_SmallestUnusedAssigned ==
    /\ \A i \in 1..Len(mapCall.assigned) :
          /\ IsSmallestUnused(mapCall.assigned[i].code, mapCall.assigned[i].used)
          /\ mapCall.assigned[i].code # <<"0", "0", "0">>
          /\ sourcemap[mapCall.assigned[i].source] \in
                {mapCall.assigned[j].code : j \in i..Len(mapCall.assigned)}
    /\ (/\ mapCall.assigned # <<>>
        /\ mapCall.freed_before # <<>>
        /\ IsSmallestUnused(mapCall.freed_before[1], mapCall.assigned[1].used))
          => mapCall.assigned[1].code = mapCall.freed_before[1]

\* C12 as claimed, in its last part: the code freed by removing a source
\* is the code of the next assignment.
C12_FreedCodeReusedNext ==
    (mapCall.assigned # <<>> /\ mapCall.freed_before # <<>>)
        => mapCall.assigned[1].code = mapCall.freed_before[1]

\* Three sources were mapped, the one holding the middle code was removed
\* and the next source mapped took that code.
C12_Witness ==
    /\ mapOp = "map_source"
    /\ mapCall.freed_before = <<<<"0", "0", "2">>>>
    /\ mapCall.assigned # <<>>
    /\ mapCall.assigned[1].code = <<"0", "0", "2">>
    /\ mapCall.assigned[1].used = {<<"0", "0", "1">>, <<"0", "0", "3">>}

(***************************************************************************)
(* Paths (iterator.py).  A path is a Python str, modelled as the sequence  *)
(* of its characters, so that slicing and prefix comparison act on         *)
(* characters as they do in the code.                                      *)
(***************************************************************************)
Sep == "/"

\* ischild(parent, child): child[:len(parent)] == parent
IsChildLengthOnly(parent, child) == Len(parent) <= Len(child)

IsChild(parent, child) ==
    IF Len(parent) <= Len(child)
    THEN parent = SubSeq(child, 1, Len(parent))
    ELSE FALSE

\* os.path.join(a, b) on POSIX
PathJoin(a, b) ==
    IF Len(b) > 0 /\ b[1] = Sep THEN b
    ELSE IF a = <<>> \/ a[Len(a)] = Sep THEN a \o b
    ELSE a \o <<Sep>> \o b

\* The last index of Sep in p, 0 if there is none.
LastSep(p) ==
    LET I == {i \in 1..Len(p) : p[i] = Sep}
    IN  IF I = {} THEN 0 ELSE CHOOSE i \in I : \A j \in I : j <= i

\* os.path.basename(p) on POSIX
BaseName(p) == SubSeq(p, LastSep(p) + 1, Len(p))

(***************************************************************************)
(* recursivecopy.__init__                                                  *)
(***************************************************************************)
\* The absolute, normalized paths of the model's filesystem.
CtorPaths == { <<"/">>,
               <<"/", "a">>,
               <<"/", "a", "/", "b">>,
               <<"/", "a", "b">>,
               <<"/", "q">> }

\* The longest destination list handed to the constructor.
MaxCtorDests == 3

PyNone == [kind |-> "None"]

PyStr(p) == [kind |-> "str", val |-> p]

PyList(l) == [kind |-> "list", val |-> l]

PyInt == [kind |-> "int"]

\* The loop body of __init__ for one destination: the exception it raises,
\* or "ok".  This one lacks the test against ancestors of the source.
CheckDestinationNoAncestor(root_path, path, dirs) ==
    IF path \notin dirs THEN "NotADirectoryError"
    ELSE IF path = root_path THEN "SameFileError"
    ELSE IF IsChild(root_path, path) THEN "SameFileError"
    ELSE "ok"

\* This one lacks the os.path.isdir test.
CheckDestinationNoIsDir(root_path, path, dirs) ==
    IF path = root_path THEN "SameFileError"
    ELSE IF IsChild(root_path, path) \/ IsChild(path, root_path)
         THEN "SameFileError"
    ELSE "ok"

CheckDestination(root_path, path, dirs) ==
    IF path \notin dirs THEN "NotADirectoryError"
    ELSE IF path = root_path THEN "SameFileError"
    ELSE IF IsChild(root_path, path) \/ IsChild(path, root_path)
         THEN "SameFileError"
    ELSE "ok"

RECURSIVE CheckDestinations(_, _, _)
\* for path in destination_folders: the first exception raised, or "ok"
CheckDestinations(root_path, folders, dirs) ==
    IF folders = <<>> THEN "ok"
    ELSE LET r == CheckDestination(root_path, Head(folders), dirs)
         IN  IF r # "ok" THEN r
             ELSE CheckDestinations(root_path, Tail(folders), dirs)

\* destination_folders after `if isinstance(destination_folders, str)`
AsList(destination_folders) ==
    IF destination_folders.kind = "str" THEN <<destination_folders.val>>
    ELSE destination_folders.val

\* recursivecopy.__init__: the exception raised, or "ok"
CtorOutcome(args, dirs) ==
    IF args.root_path.kind = "None" \/ args.destination_folders.kind = "None"
    THEN "AttributeError"
    ELSE IF args.root_path.val \notin dirs THEN "NotADirectoryError"
    ELSE IF args.destination_folders.kind \notin {"list", "str"}
         THEN "ValueError"
    ELSE CheckDestinations(args.root_path.val,
                           AsList(args.destination_folders), dirs)

\* The fields __init__ sets when nothing was raised.
CtorObject(args) ==
    LET name == IF args.newdestname.kind = "None"
                THEN BaseName(args.root_path.val)
                ELSE args.newdestname.val
        folders == AsList(args.destination_folders)
    IN  [_source |-> args.root_path.val,
         _destinations |-> [i \in 1..Len(folders) |-> PathJoin(folders[i], name)],
         constructed |-> TRUE]

\* A directory exists only below existing directories; the root exists.
ParentClosed(dirs) ==
    /\ <<"/">> \in dirs
    /\ <<"/", "a", "/", "b">> \in dirs => <<"/", "a">> \in dirs

CtorArgs ==
    [root_path : {PyNone} \cup {PyStr(p) : p \in CtorPaths},
     destination_folders :
        {PyNone, PyInt} \cup {PyStr(p) : p \in CtorPaths}
        \cup {PyList(l) : l \in SeqsUpTo(CtorPaths, MaxCtorDests)},
     newdestname : {PyNone, PyStr(<<"0", "0", "1">>)}]

InitCtor ==
    /\ ctor_args \in CtorArgs
    /\ ctor_dirs \in {d \in SUBSET CtorPaths : ParentClosed(d)}
    /\ ctor_result = "pending"
    /\ copier = NoCopier

recursivecopy_init ==
    /\ ctor_result = "pending"
    /\ ctor_result' = CtorOutcome(ctor_args, ctor_dirs)
    /\ copier' = IF ctor_result' = "ok" THEN CtorObject(ctor_args) ELSE NoCopier
    /\ UNCHANGED <<ctor_args, ctor_dirs>>
    /\ UNCHANGED nonCtorVars

NextCtor == recursivecopy_init

InitSpecCtor == InitCtor /\ IdleMap /\ IdleFile /\ IdleRun /\ IdlePool /\ IdleIgnore /\ IdleProfile /\ IdleJson /\ IdleLoad /\ IdleWalk /\ IdlePath /\ IdleExec /\ IdleTouch

SpecCtor == InitSpecCtor /\ [][NextCtor]_vars

(***************************************************************************)
(* Claims about the construction of a copier                               *)
(***************************************************************************)
RECURSIVE Components(_)
\* The names a normalized absolute path is made of.
Components(p) ==
    IF p = <<>> THEN <<>>
    ELSE IF LastSep(p) = Len(p) THEN Components(SubSeq(p, 1, Len(p) - 1))
    ELSE Append(Components(SubSeq(p, 1, LastSep(p))), BaseName(p))

\* Directory d is located under directory s in the filesystem.
LocatedUnder(s, d) ==
    LET cs == Components(s)
        cd == Components(d)
    IN  Len(cs) < Len(cd) /\ SubSeq(cd, 1, Len(cs)) = cs

\* The characters of a are the first characters of b.
IsPrefixOf(a, b) == \E k \in 0..Len(b) : a = SubSeq(b, 1, k)

CtorRootIsPath == ctor_args.root_path.kind = "str"

CtorDestsArePaths == ctor_args.destination_folders.kind \in {"str", "list"}

CtorDests == AsList(ctor_args.destination_folders)

CtorRoot == ctor_args.root_path.val

C7_Case ==
    /\ ctor_result # "pending"
    /\ CtorRootIsPath /\ CtorDestsArePaths
    /\ CtorRoot \in ctor_dirs
    /\ Len(CtorDests) = 1
    /\ CtorDests[1] \in ctor_dirs
    /\ CtorDests[1] # CtorRoot

C8_Case ==
    /\ ctor_result # "pending"
    /\ CtorRootIsPath /\ CtorDestsArePaths
    /\ CtorRoot \in ctor_dirs
    /\ \E i \in 1..Len(CtorDests) : CtorDests[i] \notin ctor_dirs

\* The entries of the list before its first entry that is no directory.
C8_Before ==
    LET first == CHOOSE i \in 1..Len(CtorDests) :
                    /\ CtorDests[i] \notin ctor_dirs
                    /\ \A j \in 1..(i - 1) : CtorDests[j] \in ctor_dirs
    IN  {CtorDests[j] : j \in 1..(first - 1)}

\* The list of the test: an ancestor of the source, a path that is no
\* directory, the source itself.
C8_TestList ==
    /\ C8_Case
    /\ Len(CtorDests) = 3
    /\ LocatedUnder(CtorDests[1], CtorRoot) /\ CtorDests[1] \in ctor_dirs
    /\ CtorDests[2] \notin ctor_dirs
    /\ CtorDests[3] = CtorRoot

NoNode == [kind |-> "none", data |-> <<>>, mtime |-> 0]

FileNode(data, mtime) == [kind |-> "file", data |-> data, mtime |-> mtime]

\* os.path.exists, os.path.isfile, os.path.isdir, os.path.islink
PathExists(n) == n.kind # "none"

IsFile(n) == n.kind \in {"file", "flink"}

IsDir(n) == n.kind \in {"dir", "dlink"}

IsLink(n) == n.kind \in {"flink", "dlink"}

\* The latest modification time a path has before the program runs, and
\* the time of the run, which is later.
MaxMtime == 2

NowTime == MaxMtime + 1

Min(a, b) == IF a < b THEN a ELSE b

(***************************************************************************)
(* recursivecopy._copy_file: one source file read once, block by block,    *)
(* and written to every destination.                                       *)
(***************************************************************************)
\* read_blocksize, in bytes (10 MiB in the code; the model counts in bytes
\* of a file of at most MaxFileLen bytes).
ReadBlockSize == 2

\* The most bytes a source file holds, and the most destinations.
MaxFileLen == 3

MaxFileDests == 2

\* An error value of the family recursivecopy.UnexpectedError; dest is the
\* index of the destination it is about, 0 for the source.
NoError == [type |-> "None", dest |-> 0]

ErrorOf(type, dest) == [type |-> type, dest |-> dest]

\* _open_file: the error it returns for the exception open() raised
\* ("ok": none).  Paths are shorter than 256 characters.
OpenFileError(outcome, dest) ==
    CASE outcome = "ok" -> NoError
      [] outcome = "FileNotFoundError" -> ErrorOf("UnexpectedError", dest)
      [] outcome = "PermissionError" -> ErrorOf("AccessDeniedError", dest)
      [] OTHER -> ErrorOf("CantOpenFileError", dest)

\* open(dest, 'wb') that succeeded: the file is created or truncated.
Truncated(n) ==
    [kind |-> IF n.kind = "flink" THEN "flink" ELSE "file",
     data |-> <<>>, mtime |-> NowTime]

\* The entry of dest_files for destination i, and what the path holds
\* after open(dest, 'wb'):  h is the handle, "none" when open failed.
OpenDest(node, outcome, i) ==
    IF outcome = "ok"
    THEN [h |-> "open", error |-> NoError, written |-> 0, node |-> Truncated(node)]
    ELSE [h |-> "none", error |-> OpenFileError(outcome, i), written |-> 0,
          node |-> node]

\* _read_file, call number n at offset pos: the block, or the exception
\* raised, or the error returned.  The handler of PermissionError calls
\* logger.exception() without a message, which raises TypeError.
ReadFile(content, pos, env, n) ==
    IF env.read_fault.at = n
    THEN IF env.read_fault.kind = "PermissionError"
         THEN [raised |-> "TypeError", error |-> NoError, data |-> <<>>]
         ELSE IF env.windows
              THEN [raised |-> "none", error |-> ErrorOf("CantOpenFileError", 0),
                    data |-> <<>>]
              ELSE [raised |-> "OSError", error |-> NoError, data |-> <<>>]
    ELSE [raised |-> "none", error |-> NoError,
          data |-> SubSeq(content, pos + 1, Min(pos + ReadBlockSize, Len(content)))]

\* _write_file of one block to destination i, block number n.
WriteFile(data, env, i, n) ==
    IF env.write_fault.dest = i /\ env.write_fault.at = n
    THEN IF env.write_fault.kind = "raise"
         THEN [raised |-> "OSError", error |-> NoError, written |-> 0]
         ELSE [raised |-> "none", error |-> ErrorOf("FileWriteFailure", i),
               written |-> Len(data) - 1]
    ELSE [raised |-> "none", error |-> NoError, written |-> Len(data)]

\* `dest[1] = werror` where dest is the tuple appended at line 305: a tuple
\* does not support item assignment, TypeError is raised.
RecordWriteError(entry, werror) == [raised |-> "TypeError", entry |-> entry]

\* for d,_,_ in dest_files: if d is not None: d.close()
CloseAll(files) ==
    [i \in 1..Len(files) |->
        IF files[i].h = "open" THEN [files[i] EXCEPT !.h = "closed"] ELSE files[i]]

RECURSIVE WriteBlock(_, _, _, _, _)
\* The for loop of lines 353-367 from destination i on: the block is
\* written to every destination whose handle is open.
WriteBlock(files, data, env, n, i) ==
    IF i > Len(files) THEN [raised |-> "none", files |-> files]
    ELSE IF files[i].h # "open" THEN WriteBlock(files, data, env, n, i + 1)
    ELSE
      LET w == WriteFile(data, env, i, n)
          wrote == [files EXCEPT
                      ![i].written = @ + w.written,
                      ![i].node.data = @ \o SubSeq(data, 1, w.written)]
      IN  IF w.raised # "none"
          THEN [raised |-> w.raised, files |-> CloseAll(wrote)]
          ELSE IF w.error # NoError
          THEN LET r == RecordWriteError(wrote[i], w.error)
               IN  IF r.raised # "none"
                   THEN [raised |-> r.raised, files |-> CloseAll(wrote)]
                   ELSE WriteBlock([wrote EXCEPT ![i] = r.entry],
                                   data, env, n, i + 1)
          ELSE WriteBlock(wrote, data, env, n, i + 1)

\* do_continue as lines 306-307 and 375-379 set it, were it to need every
\* destination.
DoContinueAll(files) ==
    \A i \in 1..Len(files) : files[i].error = NoError /\ files[i].h = "open"

\* do_continue as lines 306-307 and 375-379 set it.
DoContinue(files) ==
    \E i \in 1..Len(files) : files[i].error = NoError /\ files[i].h = "open"

RECURSIVE CopyLoop(_, _, _, _, _, _)
\* The while loop of lines 326-379, entered for the n-th time with pos
\* bytes read.  end is "eof" (the loop was left, by break or by its
\* condition), "rerror" (the return of line 339) or "raised".
CopyLoop(content, env, files, pos, n, reads) ==
    IF ~DoContinue(files)
    THEN [end |-> "eof", raised |-> "none", rerror |-> NoError, files |-> files,
          bytes_read |-> pos, reads |-> reads, src_closed |-> FALSE]
    ELSE
      LET r == ReadFile(content, pos, env, n) IN
      IF r.raised # "none"
      THEN [end |-> "raised", raised |-> r.raised, rerror |-> NoError,
            files |-> CloseAll(files), bytes_read |-> pos, reads |-> reads + 1,
            src_closed |-> TRUE]
      ELSE IF r.error # NoError
      THEN [end |-> "rerror", raised |-> "none", rerror |-> r.error,
            files |-> CloseAll(files), bytes_read |-> pos, reads |-> reads + 1,
            src_closed |-> TRUE]
      ELSE IF Len(r.data) = 0
      THEN [end |-> "eof", raised |-> "none", rerror |-> NoError, files |-> files,
            bytes_read |-> pos, reads |-> reads + 1, src_closed |-> FALSE]
      ELSE
        LET w == WriteBlock(files, r.data, env, n, 1) IN
        IF w.raised # "none"
        THEN [end |-> "raised", raised |-> w.raised, rerror |-> NoError,
              files |-> w.files, bytes_read |-> pos + Len(r.data),
              reads |-> reads + 1, src_closed |-> TRUE]
        ELSE CopyLoop(content, env, w.files, pos + Len(r.data), n + 1, reads + 1)

\* shutil.copystat(source, dest, follow_symlinks=False): when both paths
\* are links the times of the link itself are set, otherwise those of the
\* file.
CopyStat(src, node) ==
    IF IsLink(src) /\ IsLink(node) THEN node
    ELSE [node EXCEPT !.mtime = src.mtime]

\* The errors of dest_files in list order.
RECURSIVE ErrorsOf(_)
ErrorsOf(files) ==
    IF files = <<>> THEN <<>>
    ELSE IF Head(files).error # NoError
         THEN <<Head(files).error>> \o ErrorsOf(Tail(files))
         ELSE ErrorsOf(Tail(files))

\* What _copy_file hands back.  raised: the exception that left it, "none"
\* when it returned; errors: the list returned; nodes: what the destination
\* paths hold afterwards; completed: the end of the function was reached.
CopyFileResult(raised, errors, files, nodes, lp, opens, closed) ==
    [raised |-> raised, errors |-> errors, files |-> files, nodes |-> nodes,
     bytes_read |-> lp.bytes_read, reads |-> lp.reads,
     src_opens |-> opens, src_closed |-> closed,
     completed |-> (raised = "none" /\ lp.end = "eof")]

NotRead == [end |-> "none", bytes_read |-> 0, reads |-> 0]

\* A _copy_file that opens the destination files before the source file.
CopyFileDestsFirst(src, nodes, env) ==
    CopyFileResult("none",
        IF env.src_open # "ok" THEN <<OpenFileError(env.src_open, 0)>> ELSE <<>>,
        CloseAll([i \in 1..Len(nodes) |-> OpenDest(nodes[i], env.dst_open[i], i)]),
        [i \in 1..Len(nodes) |-> OpenDest(nodes[i], env.dst_open[i], i).node],
        NotRead, 1, TRUE)

\* recursivecopy._copy_file(source, destinations), from line 291 on.  src
\* is the node of the source, nodes what the destination paths hold, and
\* env.dst_open[i] what open() does for destination i.
CopyFile(src, nodes, env) ==
    IF env.src_open # "ok"
    THEN CopyFileResult("none", <<OpenFileError(env.src_open, 0)>>, <<>>, nodes,
                        NotRead, 1, TRUE)
    ELSE
      LET files == [i \in 1..Len(nodes) |-> OpenDest(nodes[i], env.dst_open[i], i)]
          opened == [i \in 1..Len(nodes) |-> files[i].node]
      IN
      IF env.stat_fails
      THEN \* os.stat(source) of line 321 raises: no handle is closed
           CopyFileResult("OSError", <<>>, files, opened, NotRead, 1, FALSE)
      ELSE
        LET lp == CopyLoop(src.data, env, files, 0, 1, 0)
            written == [i \in 1..Len(nodes) |-> lp.files[i].node]
        IN
        IF lp.end = "raised"
        THEN CopyFileResult(lp.raised, <<>>, lp.files, written, lp, 1, TRUE)
        ELSE IF lp.end = "rerror"
        THEN CopyFileResult("none", ErrorsOf(lp.files) \o <<lp.rerror>>,
                            lp.files, written, lp, 1, TRUE)
        ELSE
          LET closed == CloseAll(lp.files)
              isfile == {i \in 1..Len(nodes) : IsFile(written[i])}
              stopped == env.copystat_fault \in isfile
              stated == [i \in 1..Len(nodes) |->
                            IF i \in isfile
                               /\ (~stopped \/ i < env.copystat_fault)
                            THEN CopyStat(src, written[i]) ELSE written[i]]
          IN  IF stopped
              THEN CopyFileResult("OSError", <<>>, closed, stated, lp, 1, TRUE)
              ELSE CopyFileResult("none", ErrorsOf(closed), closed, stated,
                                  lp, 1, TRUE)

\* The source files and the states of a destination path of SpecFile.
FileContents == {[i \in 1..n |-> i] : n \in 0..MaxFileLen}

StaleData == <<9>>

FileDestNodes == {NoNode, FileNode(StaleData, 1)}

NoReadFault == [at |-> 0, kind |-> "none"]

NoWriteFault == [dest |-> 0, at |-> 0, kind |-> "none"]

NoFaults(k) ==
    [src_open |-> "ok", dst_open |-> [i \in 1..k |-> "ok"], stat_fails |-> FALSE,
     read_fault |-> NoReadFault, write_fault |-> NoWriteFault,
     copystat_fault |-> 0, windows |-> FALSE]

MaxBlocks == (MaxFileLen + ReadBlockSize - 1) \div ReadBlockSize

\* The behaviours of the operating system during one _copy_file with k
\* destinations: any outcome of each open(), and at most one later failure.
FileEnvs(k) ==
    LET opens == {[NoFaults(k) EXCEPT !.dst_open = o, !.windows = w] :
                    o \in [1..k -> {"ok", "PermissionError", "FileNotFoundError"}],
                    w \in BOOLEAN}
    IN  UNION { {e,
                 [e EXCEPT !.stat_fails = TRUE]}
                \cup {[e EXCEPT !.src_open = x] :
                        x \in {"PermissionError", "FileNotFoundError", "OSError"}}
                \cup {[e EXCEPT !.read_fault = [at |-> n, kind |-> x]] :
                        n \in 1..(MaxBlocks + 1), x \in {"PermissionError", "OSError"}}
                \cup {[e EXCEPT !.write_fault = [dest |-> i, at |-> n, kind |-> x]] :
                        i \in 1..k, n \in 1..MaxBlocks, x \in {"short", "raise"}}
                \cup {[e EXCEPT !.copystat_fault = i] : i \in 1..k}
              : e \in opens }

InitFile ==
    /\ cf_src \in {FileNode(c, MaxMtime) : c \in FileContents}
    /\ \E k \in 1..MaxFileDests :
          /\ cf_dsts \in [1..k -> FileDestNodes]
          /\ cf_env \in FileEnvs(k)
    /\ cf_result = <<>>

copy_file ==
    /\ cf_result = <<>>
    /\ cf_result' = <<CopyFile(cf_src, cf_dsts, cf_env)>>
    /\ UNCHANGED <<cf_src, cf_dsts, cf_env>>
    /\ UNCHANGED nonFileVars

NextFile == copy_file

InitSpecFile == InitFile /\ IdleMap /\ IdleCtor /\ IdleRun /\ IdlePool /\ IdleIgnore /\ IdleProfile /\ IdleJson /\ IdleLoad /\ IdleWalk /\ IdlePath /\ IdleExec /\ IdleTouch

SpecFile == InitSpecFile /\ [][NextFile]_vars

(***************************************************************************)
(* Properties of _copy_file.                                               *)
(***************************************************************************)
CopyFileEnded == cf_result # <<>>

CopyFileOutcome == cf_result[1]

\* The destinations whose file was opened and never got an error.
Survivors ==
    {i \in 1..Len(cf_dsts) :
        /\ cf_env.dst_open[i] = "ok"
        /\ CopyFileOutcome.files[i].error = NoError}

\* A write to an opened destination went wrong while the file was copied:
\* the planned failure is at a block the file has, of a destination that is
\* open.
WriteWentWrong ==
    /\ CopyFileEnded
    /\ cf_env.src_open = "ok"
    /\ cf_env.write_fault.dest \in 1..Len(cf_dsts)
    /\ cf_env.dst_open[cf_env.write_fault.dest] = "ok"
    /\ (cf_env.write_fault.at - 1) * ReadBlockSize < Len(cf_src.data)

\* C4 (per-destination write isolation): when a write to one destination
\* is short or raises, the step returns an error list and does not raise,
\* the error of that destination is in the list and its handle is closed,
\* and every other opened destination ends with the complete file.
C4_WriteFailureIsolated ==
    WriteWentWrong =>
        LET i == cf_env.write_fault.dest
            r == CopyFileOutcome
        IN  /\ r.raised = "none"
            /\ \E e \in 1..Len(r.errors) : r.errors[e].dest = i
            /\ r.files[i].h = "closed"
            /\ \A j \in 1..Len(cf_dsts) :
                  (j # i /\ cf_env.dst_open[j] = "ok")
                      => r.nodes[j].data = cf_src.data

\* C5 (single read): when the copy of a file of N bytes runs to its end
\* and at least one destination survives, the source was opened once, N
\* bytes were read from it whatever the number of destinations, and N
\* bytes, the bytes of the source, were written to each surviving one.
C5_SingleRead ==
    (CopyFileEnded /\ CopyFileOutcome.completed /\ Survivors # {}) =>
        /\ CopyFileOutcome.src_opens = 1
        /\ CopyFileOutcome.bytes_read = Len(cf_src.data)
        /\ \A i \in Survivors :
              /\ CopyFileOutcome.files[i].written = Len(cf_src.data)
              /\ CopyFileOutcome.nodes[i].data = cf_src.data

\* A file of several blocks copied to two destinations of which one could
\* not be opened and the other, holding older data, survived.
C5_Witness ==
    /\ CopyFileEnded
    /\ CopyFileOutcome.completed
    /\ Len(cf_dsts) = 2
    /\ Cardinality(Survivors) = 1
    /\ Len(cf_src.data) > ReadBlockSize
    /\ \E i \in Survivors : cf_dsts[i].data = StaleData

(***************************************************************************)
(* Directory trees.  A tree gives the node of every path of RelPaths, the  *)
(* paths relative to its root (the source S, or D/map(S) of a destination  *)
(* D).  A path holds something only when its parent is a directory; the    *)
(* directory a "dlink" points to is empty and outside the tree.            *)
(***************************************************************************)
RelPaths == {<<>>, <<"f">>, <<"d">>, <<"d", "g">>}

DirNode(mtime) == [kind |-> "dir", data |-> <<>>, mtime |-> mtime]

LinkToFile(data, mtime) == [kind |-> "flink", data |-> data, mtime |-> mtime]

LinkToDir(mtime) == [kind |-> "dlink", data |-> <<>>, mtime |-> mtime]

\* os.path.dirname
Parent(rel) == SubSeq(rel, 1, Len(rel) - 1)

\* rel is anc or a path below it
IsUnder(anc, rel) == Len(anc) <= Len(rel) /\ SubSeq(rel, 1, Len(anc)) = anc

\* The tree after the path rel was given the node: creating or removing an
\* entry changes the modification time of the directory that holds it.
PutNode(tree, rel, node) ==
    [r \in RelPaths |->
        IF r = rel THEN node
        ELSE IF rel # <<>> /\ r = Parent(rel)
                /\ PathExists(tree[rel]) # PathExists(node)
             THEN [tree[r] EXCEPT !.mtime = NowTime]
             ELSE tree[r]]

\* The order in which os.walk lists the paths of a tree: a directory, the
\* files in it, then its subdirectories.
WalkOrder == << <<>>, <<"f">>, <<"d">>, <<"d", "g">> >>

\* class recursive: the paths yielded for the tree.  os.walk puts a link
\* to a directory among the dirs and does not walk it, and recursive
\* yields only the walked directories and the entries of files.
\* Yielded: the path is a walked directory or a file of one.
Yielded(tree, r) ==
    /\ \A k \in 0..(Len(r) - 1) : tree[SubSeq(r, 1, k)].kind = "dir"
    /\ tree[r].kind = "dir" \/ IsFile(tree[r])

RECURSIVE WalkFrom(_, _)
WalkFrom(tree, order) ==
    IF order = <<>> THEN <<>>
    ELSE IF Yielded(tree, Head(order))
         THEN <<Head(order)>> \o WalkFrom(tree, Tail(order))
         ELSE WalkFrom(tree, Tail(order))

Walk(tree) == WalkFrom(tree, WalkOrder)

\* copypredicate.if_source_was_modified_more_recently
IfSourceWasModifiedMoreRecently(source, destination) ==
    IF PathExists(destination) THEN source.mtime > destination.mtime ELSE TRUE

RECURSIVE MakeDirs(_, _)
\* os.makedirs(folder); the tree is unchanged where it raises.
MakeDirs(tree, folder) ==
    LET t == IF folder # <<>> /\ ~PathExists(tree[Parent(folder)])
             THEN MakeDirs(tree, Parent(folder)) ELSE tree
    IN  IF PathExists(t[folder]) THEN t
        ELSE IF folder = <<>> \/ IsDir(t[Parent(folder)])
        THEN PutNode(t, folder, DirNode(NowTime))
        ELSE t

\* recursivecopy._make_parent_folders(path); the directory of the root of
\* the tree is the destination folder, which exists.
MakeParentFolders(tree, rel) ==
    IF rel = <<>> \/ IsDir(tree[Parent(rel)]) THEN tree
    ELSE MakeDirs(tree, Parent(rel))

\* recursivecopy._copy_folder for one destination: the error appended to
\* the results ("None": no error) and the tree afterwards.
CopyFolder(tree, rel, i) ==
    IF PathExists(tree[rel]) THEN [error |-> NoError, tree |-> tree]
    ELSE IF rel = <<>> \/ IsDir(tree[Parent(rel)])
    THEN [error |-> NoError, tree |-> PutNode(tree, rel, DirNode(NowTime))]
    ELSE IF ~PathExists(tree[Parent(rel)])
    THEN [error |-> NoError, tree |-> tree]     \* FileNotFoundError: continue
    ELSE [error |-> ErrorOf("UnexpectedError", i), tree |-> tree]

\* What open(dest, 'wb') does for the path rel of a destination tree.
DestOpenOutcome(tree, rel) ==
    IF rel # <<>> /\ ~PathExists(tree[Parent(rel)]) THEN "FileNotFoundError"
    ELSE IF rel # <<>> /\ ~IsDir(tree[Parent(rel)]) THEN "NotADirectoryError"
    ELSE IF IsDir(tree[rel]) THEN "IsADirectoryError"
    ELSE "ok"

\* The destination path the predicate is given: os.path.join(x, "") for the
\* root of the walk, which exists only when x is a directory.
PredicateDest(tree, rel) ==
    IF rel = <<>> /\ ~IsDir(tree[rel]) THEN NoNode ELSE tree[rel]

RECURSIVE KeptDests(_, _, _, _)
\* tempdlist: the destinations, from number i on, for which the predicate
\* holds.
KeptDests(n, trees, rel, i) ==
    IF i > Len(trees) THEN <<>>
    ELSE IF IfSourceWasModifiedMoreRecently(n, PredicateDest(trees[i], rel))
         THEN <<i>> \o KeptDests(n, trees, rel, i + 1)
         ELSE KeptDests(n, trees, rel, i + 1)

\* The directories that the trees new hold and the trees old did not.
CreatedDirs(old, new) ==
    {x \in (1..Len(old)) \X RelPaths :
        ~PathExists(old[x[1]][x[2]]) /\ new[x[1]][x[2]].kind = "dir"}

\* The destinations in which _copy_file opened a file for writing.
OpenedDests(r) == {j \in 1..Len(r.files) : r.files[j].h # "none"}

\* The end of _copy_fsobject for a file: r is what _copy_file did with
\* the kept destinations, whose errors are renumbered to the destinations.
FileCopied(trees, made, rel, kept, r) ==
    [raised |-> r.raised,
     errors |-> [e \in 1..Len(r.errors) |->
                   IF r.errors[e].dest = 0 THEN r.errors[e]
                   ELSE ErrorOf(r.errors[e].type, kept[r.errors[e].dest])],
     trees |-> [i \in 1..Len(trees) |->
                   IF \E j \in 1..Len(kept) : kept[j] = i
                   THEN PutNode(made[i], rel,
                                r.nodes[CHOOSE j \in 1..Len(kept) : kept[j] = i])
                   ELSE made[i]],
     writes |-> Cardinality(OpenedDests(r))
                + Cardinality(CreatedDirs(trees, made))]

\* The end of _copy_fsobject for a directory: c is what _copy_folder did
\* for each destination.
FolderCopied(trees, c) ==
    [raised |-> "none", errors |-> ErrorsOf(c),
     trees |-> [i \in 1..Len(trees) |-> c[i].tree],
     writes |-> Cardinality(CreatedDirs(trees, [i \in 1..Len(trees) |-> c[i].tree]))]

\* _copy_fsobject from line 243 on: n is the node of the source, kept the
\* destinations the predicate left, made their trees after
\* _make_parent_folders, rf what reading the source does.
CopyKept(n, trees, rel, kept, made, rf) ==
    IF IsFile(n)
    THEN FileCopied(trees, made, rel, kept,
            CopyFile(n, [j \in 1..Len(kept) |-> made[kept[j]][rel]],
                     [NoFaults(Len(kept)) EXCEPT
                        !.dst_open = [j \in 1..Len(kept) |->
                                         DestOpenOutcome(made[kept[j]], rel)],
                        !.read_fault = rf]))
    ELSE IF IsLink(n)
    THEN \* a link that is not a file: _copy_file, line 278
         [raised |-> "none", errors |-> <<ErrorOf("PathNotWorkingError", 0)>>,
          trees |-> made, writes |-> Cardinality(CreatedDirs(trees, made))]
    ELSE FolderCopied(trees,
            [i \in 1..Len(trees) |->
                IF i \in Range(kept) THEN CopyFolder(made[i], rel, i)
                ELSE [error |-> NoError, tree |-> made[i]]])

\* A _copy_fsobject that answers a fully filtered step with a
\* NothingWasDoneError.
CopyFilteredNothingWasDone(n, trees, rel, kept, rf) ==
    IF kept = <<>>
    THEN [raised |-> "none", errors |-> <<ErrorOf("NothingWasDoneError", 0)>>,
          trees |-> trees, writes |-> 0]
    ELSE IF ~(IsDir(n) \/ IsFile(n) \/ IsLink(n))
    THEN [raised |-> "none", errors |-> <<ErrorOf("PathNotWorkingError", 0)>>,
          trees |-> trees, writes |-> 0]
    ELSE CopyKept(n, trees, rel, kept,
            [i \in 1..Len(trees) |->
                IF i \in Range(kept) THEN MakeParentFolders(trees[i], rel)
                ELSE trees[i]], rf)

\* _copy_fsobject from line 229 on.
CopyFiltered(n, trees, rel, kept, rf) ==
    IF kept = <<>>
    THEN [raised |-> "none", errors |-> <<>>, trees |-> trees, writes |-> 0]
    ELSE IF ~(IsDir(n) \/ IsFile(n) \/ IsLink(n))
    THEN [raised |-> "none", errors |-> <<ErrorOf("PathNotWorkingError", 0)>>,
          trees |-> trees, writes |-> 0]
    ELSE CopyKept(n, trees, rel, kept,
            [i \in 1..Len(trees) |->
                IF i \in Range(kept) THEN MakeParentFolders(trees[i], rel)
                ELSE trees[i]], rf)

\* recursivecopy._copy_fsobject(source_path, self._destinations) for the
\* path rel of the source: the exception that leaves it ("none": it
\* returned), the errors returned, the destination trees afterwards and
\* the number of files opened for writing and directories made.
CopyFsObject(src, trees, rel, rf) ==
    IF Len(trees) = 0
    THEN [raised |-> "none", errors |-> <<ErrorOf("NothingWasDoneError", 0)>>,
          trees |-> trees, writes |-> 0]
    ELSE CopyFiltered(src[rel], trees, rel, KeptDests(src[rel], trees, rel, 1), rf)

\* recursiveprune._dest_in_source for the path rel of D/map(S)
DestInSource(src, tree, rel) ==
    IF rel = <<>> THEN TRUE
    ELSE IF IsLink(tree[rel]) THEN IsLink(src[rel])
    ELSE IF IsFile(tree[rel]) THEN IsFile(src[rel]) /\ ~IsLink(src[rel])
    ELSE IF IsDir(tree[rel]) THEN IsDir(src[rel]) /\ ~IsLink(src[rel])
    ELSE FALSE

\* recursiveprune.todelete
ToDelete(src, tree) ==
    {rel \in Range(Walk(tree)) : ~DestInSource(src, tree, rel)}

\* Backup._delete_path: os.remove for a link or a file, shutil.rmtree for
\* a directory, nothing for a path that is not there.
DeletePath(tree, rel) ==
    IF ~PathExists(tree[rel]) THEN tree
    ELSE IF IsLink(tree[rel]) \/ IsFile(tree[rel])
    THEN PutNode(tree, rel, NoNode)
    ELSE LET t == PutNode(tree, rel, NoNode)
         IN  [r \in RelPaths |-> IF IsUnder(rel, r) THEN NoNode ELSE t[r]]

(***************************************************************************)
(* Backup.execute: one source copied to the destinations, which are then   *)
(* pruned.  Backup.abort is set by another thread at any moment.           *)
(***************************************************************************)
\* The runs of the same backup that are followed.
MaxRuns == 2

\* The source directory handed to Backup and the destination folders.
RunSource == <<"/", "a">>

RunDestFolders == << <<"/", "q">>, <<"/", "r">> >>

RunDirs == {<<"/">>, RunSource} \cup Range(RunDestFolders)

\* CONFIG["DEFAULT"]["ignorederrors"] is empty: no error type is ignored.
IgnoredErrors == {}

\* The content of the files of the source.
SourceData == [i \in 1..MaxFileLen |-> i]

EmptyTree == [r \in RelPaths |-> NoNode]

TreeOf(f, d, g) ==
    [r \in RelPaths |->
        CASE r = <<>> -> DirNode(1)
          [] r = <<"f">> -> f
          [] r = <<"d">> -> d
          [] OTHER -> g]

\* The source directories: a file, a link to a file or a link to a
\* directory at f, a directory at d, a file in it.
SourceTrees ==
    LET fs == {NoNode, LinkToFile(SourceData, MaxMtime), LinkToDir(1)}
              \cup {FileNode(SourceData, m) : m \in 1..MaxMtime}
    IN  {TreeOf(f, NoNode, NoNode) : f \in fs}
        \cup {TreeOf(f, DirNode(1), g) :
                f \in fs, g \in {NoNode, FileNode(SourceData, MaxMtime)}}

\* What D/map(S) holds before the first run: nothing, or a directory with
\* older or newer files, a copy of the source file, a link to a directory
\* or to a file, a file where the source has a directory.
DestTrees ==
    LET fs == {NoNode, FileNode(SourceData, MaxMtime), LinkToDir(1),
               LinkToFile(StaleData, 1)}
              \cup {FileNode(StaleData, m) : m \in 1..MaxMtime}
    IN  {EmptyTree}
        \cup {TreeOf(f, d, NoNode) : f \in fs, d \in {NoNode, FileNode(StaleData, 1)}}
        \cup {TreeOf(f, DirNode(1), g) : f \in fs, g \in {NoNode, FileNode(StaleData, 1)}}

\* What the second destination holds.
SecondDestTrees ==
    {EmptyTree, TreeOf(FileNode(StaleData, 1), DirNode(1), FileNode(StaleData, 1))}

NoPruning == [dest |-> 0, todelete |-> {}]

InitRun ==
    /\ source_tree \in SourceTrees
    /\ \/ destinations = <<>> /\ dest_trees = <<>>
       \/ destinations = <<RunSource>> /\ dest_trees = <<>>
       \/ /\ destinations = SubSeq(RunDestFolders, 1, 1)
          /\ dest_trees \in {<<t>> : t \in DestTrees}
       \/ /\ destinations = RunDestFolders
          /\ dest_trees \in {<<t, u>> : t \in DestTrees, u \in SecondDestTrees}
    /\ pc = "idle"
    /\ iterator = <<>>
    /\ pruning = NoPruning
    /\ abort = FALSE
    /\ history = <<>>
    /\ before_prune = <<>>
    /\ messages = <<>>
    /\ sources_count = 0
    /\ sources_copied = 0
    /\ status = [num |-> 0, den |-> 1]

NewRun == [errors |-> 0, writes |-> 0, deletes |-> 0, aborted |-> FALSE,
           raised |-> FALSE, cancelled |-> FALSE]

\* update_status, report_error and raise_finished: the message sent.
\* left_loop: the copy loop had been left because abort was set.
Progress(left_loop) == [kind |-> "progress", left_loop |-> left_loop]

ReportedError == [kind |-> "error", left_loop |-> FALSE]

Finished(left_loop) == [kind |-> "finished", left_loop |-> left_loop]

\* A raise_finished that sends nothing.
RaiseNothing(sent, left_loop) == sent

\* raise_finished
RaiseFinished(sent, left_loop) == Append(sent, Finished(left_loop))

ThisRun == Len(history)

\* sum((len(files) + len(dirs)) for _, dirs, files in os.walk(source)): the
\* entries of the walked directories; a link to a directory is among the
\* dirs of its parent and is not walked.
SourcesCount(tree) ==
    Cardinality({r \in RelPaths \ {<<>>} :
                    /\ PathExists(tree[r])
                    /\ \A k \in 0..(Len(r) - 1) :
                          tree[SubSeq(r, 1, k)].kind = "dir"})

\* The value of ProcessStatus.percent: the float num / den.
Percent(num, den) == [num |-> num, den |-> den]

\* What reading a source file does during a run: every read() succeeds, or
\* the first or the second one raises OSError.
RunReadFaults ==
    {NoReadFault, [at |-> 1, kind |-> "OSError"], [at |-> 2, kind |-> "OSError"]}

\* The errors of the list that report_error is called with.
Reported(errors) ==
    Cardinality({e \in 1..Len(errors) : errors[e].type \notin IgnoredErrors})

\* report_error for each error of the list that is not ignored.
ReportErrors(sent, errors) ==
    sent \o [i \in 1..Reported(errors) |-> ReportedError]

\* Backup.execute up to the first next(iterator).
execute ==
    /\ pc \in {"idle", "finished"}
    /\ Len(history) < MaxRuns
    /\ abort' = FALSE
    /\ pruning' = NoPruning
    /\ before_prune' = <<>>
    /\ LET args == [root_path |-> PyStr(RunSource),
                    destination_folders |-> PyList(destinations),
                    newdestname |-> PyNone]
           run == [NewRun EXCEPT !.cancelled = abort]
       IN  IF destinations = <<>>
           THEN /\ pc' = "finished"
                /\ iterator' = <<>>
                /\ history' = Append(history, run)
                /\ messages' = RaiseFinished(<<>>, FALSE)
                /\ UNCHANGED <<sources_count, sources_copied, status>>
           ELSE IF CtorOutcome(args, RunDirs) # "ok"
           THEN /\ pc' = "finished"
                /\ iterator' = <<>>
                /\ history' = Append(history, [run EXCEPT !.raised = TRUE])
                /\ messages' = RaiseFinished(<<Progress(FALSE)>>, FALSE)
                /\ sources_count' = SourcesCount(source_tree)
                /\ sources_copied' = 0
                /\ status' = Percent(0, 1)
           ELSE /\ pc' = "copy"
                /\ iterator' = Walk(source_tree)
                /\ history' = Append(history, run)
                /\ messages' = <<Progress(FALSE)>>
                /\ sources_count' = SourcesCount(source_tree)
                /\ sources_copied' = 0
                /\ status' = Percent(0, 1)
    /\ UNCHANGED <<source_tree, dest_trees, destinations>>
    /\ UNCHANGED nonRunVars

\* What Backup.execute does with r, the outcome of next(iterator).
Copied(r) ==
    /\ dest_trees' = r.trees
    /\ IF r.raised # "none"
       THEN /\ pc' = "finished"
            /\ history' = [history EXCEPT ![ThisRun].writes = @ + r.writes,
                                          ![ThisRun].raised = TRUE]
            /\ messages' = RaiseFinished(messages, FALSE)
            /\ UNCHANGED <<sources_copied, status>>
       ELSE /\ pc' = pc
            /\ history' = [history EXCEPT
                             ![ThisRun].writes = @ + r.writes,
                             ![ThisRun].errors = @ + Reported(r.errors)]
            /\ messages' = Append(ReportErrors(messages, r.errors),
                                  Progress(FALSE))
            /\ sources_copied' = sources_copied + 1
            /\ status' = IF sources_count > 0
                         THEN Percent((sources_copied + 1) * 100, sources_count)
                         ELSE status

\* One turn of `while not self.abort`: next(iterator), the errors reported.
\* Reading the source succeeds, or one read() raises OSError.
copy_next ==
    /\ pc = "copy"
    /\ ~abort
    /\ iterator # <<>>
    /\ \E rf \in RunReadFaults :
          Copied(CopyFsObject(source_tree, dest_trees, Head(iterator), rf))
    /\ iterator' = Tail(iterator)
    /\ UNCHANGED <<source_tree, destinations, pruning, abort, before_prune,
                   sources_count>>
    /\ UNCHANGED nonRunVars

\* The loop is left, by StopIteration or by abort, and the status with
\* percent = 100 is sent.  With abort set raise_finished follows; otherwise
\* the prune of the first destination begins: its status is sent and
\* recursiveprune gathers what to delete.
copy_finished ==
    /\ pc = "copy"
    /\ abort \/ iterator = <<>>
    /\ IF abort
       THEN /\ pc' = "finished" /\ pruning' = pruning /\ before_prune' = before_prune
            /\ messages' = RaiseFinished(Append(messages, Progress(TRUE)), TRUE)
       ELSE /\ pc' = "prune"
            /\ pruning' = [dest |-> 1,
                           todelete |-> ToDelete(source_tree, dest_trees[1])]
            /\ before_prune' = dest_trees
            /\ messages' = messages \o <<Progress(FALSE), Progress(FALSE)>>
    /\ status' = Percent(100, 1)
    /\ UNCHANGED <<source_tree, dest_trees, destinations, iterator, abort, history,
                   sources_count, sources_copied>>
    /\ UNCHANGED nonRunVars

\* One turn of the loop of _prune_destination: any element of the set.
prune_delete ==
    /\ pc = "prune"
    /\ ~abort
    /\ \E rel \in pruning.todelete :
          LET d == pruning.dest
              t == DeletePath(dest_trees[d], rel)
          IN  /\ dest_trees' = [dest_trees EXCEPT ![d] = t]
              /\ pruning' = [pruning EXCEPT !.todelete = @ \ {rel}]
              /\ history' = [history EXCEPT ![ThisRun].deletes =
                                @ + (IF t # dest_trees[d] THEN 1 ELSE 0)]
    /\ messages' = Append(messages, Progress(FALSE))
    /\ UNCHANGED <<source_tree, destinations, pc, iterator, abort, before_prune,
                   sources_count, sources_copied, status>>
    /\ UNCHANGED nonRunVars

\* os.remove raises in _delete_path (the entry cannot be removed): the
\* exception leaves _prune_destination and is caught at the end of execute.
prune_raise ==
    /\ pc = "prune"
    /\ ~abort
    /\ \E rel \in pruning.todelete :
          LET n == dest_trees[pruning.dest][rel]
          IN  PathExists(n) /\ (IsLink(n) \/ IsFile(n))
    /\ pc' = "finished"
    /\ history' = [history EXCEPT ![ThisRun].raised = TRUE]
    /\ messages' = RaiseFinished(messages, FALSE)
    /\ UNCHANGED <<source_tree, dest_trees, destinations, iterator, pruning,
                   abort, before_prune, sources_count, sources_copied, status>>
    /\ UNCHANGED nonRunVars

\* _prune_destination returns; the next destination, or raise_finished.
prune_next ==
    /\ pc = "prune"
    /\ abort \/ pruning.todelete = {}
    /\ IF pruning.dest < Len(destinations)
       THEN /\ pc' = pc
            /\ pruning' = [dest |-> pruning.dest + 1,
                           todelete |-> IF abort THEN {}
                                        ELSE ToDelete(source_tree,
                                                      dest_trees[pruning.dest + 1])]
            /\ messages' = Append(messages, Progress(FALSE))
       ELSE /\ pc' = "finished"
            /\ pruning' = pruning
            /\ messages' = RaiseFinished(messages, FALSE)
    /\ UNCHANGED <<source_tree, dest_trees, destinations, iterator, abort,
                   history, before_prune, sources_count, sources_copied, status>>
    /\ UNCHANGED nonRunVars

\* Another thread sets Backup.abort: while execute runs, or before
\* execute is called.
set_abort ==
    /\ pc \in {"idle", "copy", "prune"}
    /\ ~abort
    /\ abort' = TRUE
    /\ history' = IF pc = "idle" THEN history
                  ELSE [history EXCEPT ![ThisRun].aborted = TRUE]
    /\ UNCHANGED <<source_tree, dest_trees, destinations, pc, iterator, pruning,
                   before_prune, messages, sources_count, sources_copied, status>>
    /\ UNCHANGED nonRunVars

NextRun ==
    \/ execute
    \/ copy_next
    \/ copy_finished
    \/ prune_delete
    \/ prune_raise
    \/ prune_next
    \/ set_abort

InitSpecRun == InitRun /\ IdleMap /\ IdleCtor /\ IdleFile /\ IdlePool /\ IdleIgnore /\ IdleProfile /\ IdleJson /\ IdleLoad /\ IdleWalk /\ IdlePath /\ IdleExec /\ IdleTouch

SpecRun == InitSpecRun /\ [][NextRun]_vars

(***************************************************************************)
(* Properties of a run of Backup.execute.                                  *)
(***************************************************************************)
\* Run number k went through its copy phase and its prune phase: nothing
\* aborted it, nothing was raised, and it had destinations.
RunCompleted(k) ==
    /\ k \in 1..Len(history)
    /\ k < Len(history) \/ pc = "finished"
    /\ ~history[k].aborted
    /\ ~history[k].raised
    /\ destinations # <<>>

\* The files the walker yields for the source.
SourceFiles == {rel \in Range(Walk(source_tree)) : IsFile(source_tree[rel])}

\* C1 (copy mirroring): after a run that reports no errors, every file of
\* the source, a link to a file included, is a file at the same relative
\* path of every destination, with the same bytes and a modification time
\* equal to or newer than that of the source file.
C1_CopyMirrored ==
    (pc = "finished" /\ RunCompleted(ThisRun) /\ history[ThisRun].errors = 0) =>
        \A rel \in SourceFiles : \A i \in 1..Len(dest_trees) :
            /\ IsFile(dest_trees[i][rel])
            /\ dest_trees[i][rel].data = source_tree[rel].data
            /\ dest_trees[i][rel].mtime >= source_tree[rel].mtime

\* The type of what a path holds: a link is a symlink whatever it points to.
TypeOf(n) == IF IsLink(n) THEN "symlink" ELSE n.kind

\* C2 (prune safety): after a prune phase that was not aborted, every path
\* left in D/map(S) has a counterpart of the same type in the source, and
\* every path that had one when the prune began is still there.
C2_PruneExact ==
    (pc = "finished" /\ RunCompleted(ThisRun)) =>
        \A i \in 1..Len(dest_trees) : \A rel \in RelPaths :
            /\ PathExists(dest_trees[i][rel])
                  => TypeOf(dest_trees[i][rel]) = TypeOf(source_tree[rel])
            /\ (/\ PathExists(before_prune[i][rel])
                /\ TypeOf(before_prune[i][rel]) = TypeOf(source_tree[rel]))
                  => TypeOf(dest_trees[i][rel]) = TypeOf(before_prune[i][rel])

\* C3 (idempotency): in a second run that follows a first run, with the
\* predicate of Backup.execute and nothing changed in between, no file of
\* a destination is opened for writing, no directory is made and nothing
\* is deleted.
C3_SecondRunIdle ==
    (RunCompleted(1) /\ Len(history) = 2) =>
        /\ history[2].writes = 0
        /\ history[2].deletes = 0

\* A run without errors over a source whose file f is a link to a file:
\* the copy phase made the copy in a destination, the prune phase removed it.
C1_LinkCopyPruned ==
    /\ pc = "finished"
    /\ RunCompleted(ThisRun)
    /\ history[ThisRun].errors = 0
    /\ \E rel \in SourceFiles : \E i \in 1..Len(dest_trees) :
          /\ IsLink(source_tree[rel])
          /\ before_prune[i][rel] = FileNode(source_tree[rel].data,
                                             source_tree[rel].mtime)
          /\ ~PathExists(dest_trees[i][rel])

\* A prune phase that was not aborted left in D/map(S) a link to a
\* directory at a path where the source has nothing.
C2_LinkOrphanKept ==
    /\ pc = "finished"
    /\ RunCompleted(ThisRun)
    /\ \E rel \in RelPaths : \E i \in 1..Len(dest_trees) :
          /\ dest_trees[i][rel].kind = "dlink"
          /\ ~PathExists(source_tree[rel])

\* Two runs without errors over a source with a link to a file: the second
\* run wrote the copy again and pruned it again.
C3_SecondRunCopiesAndPrunes ==
    /\ pc = "finished"
    /\ Len(history) = 2
    /\ RunCompleted(1) /\ RunCompleted(2)
    /\ history[1].errors = 0 /\ history[2].errors = 0
    /\ \E rel \in SourceFiles : IsLink(source_tree[rel])
    /\ history[2].writes > 0
    /\ history[2].deletes > 0

\* A short write to the first of two opened destinations, at the first of
\* several blocks: TypeError left the step and the second destination does
\* not hold the complete file.
C4_ShortWriteRaises ==
    /\ WriteWentWrong
    /\ cf_env.write_fault = [dest |-> 1, at |-> 1, kind |-> "short"]
    /\ Len(cf_dsts) = 2
    /\ cf_env.dst_open = <<"ok", "ok">>
    /\ CopyFileOutcome.raised = "TypeError"
    /\ CopyFileOutcome.errors = <<>>
    /\ CopyFileOutcome.nodes[2].data # cf_src.data

(***************************************************************************)
(* ThreadPool and ThreadManager (threads.py).  Three kinds of threads      *)
(* act: the scheduler (ThreadManager.run, which calls doWork in a loop),   *)
(* the caller's thread (addThread, then halt_thread) and the drivers.      *)
(* Every action is one read or write of the state the threads share.       *)
(***************************************************************************)
\* The drivers handed to the manager and the largest thread count.
MaxDrivers == 4

MaxThreadCount == 2

Drivers == 1..MaxDrivers

\* ThreadManager(maxcount) constructed and started; nothing handed to it.
InitPool ==
    /\ toadd = <<>>
    /\ threadqueue = <<>>
    /\ runningthreads = {}
    /\ noadd = FALSE
    /\ maxcount \in 0..MaxThreadCount
    /\ threads = [t \in Drivers |-> "new"]
    /\ joined = {}
    /\ sched = [pc |-> "run", x |-> 0, toremove |-> {}]
    /\ halter = [pc |-> "idle", submitted |-> 0, toremove |-> {},
                 orig |-> {}, visited |-> {}, size |-> 0, cur |-> 0]
    /\ stopthread = FALSE
    /\ late_started = {}

\* threading.Thread.is_alive
IsAlive(t) == threads[t] = "alive"

\* A joinAll that finds no driver to join.
NotAliveNone == {}

\* [t for t in self.runningthreads if not t.is_alive()]
NotAlive == {t \in runningthreads : ~IsAlive(t)}

\* ThreadManager.addThread, on the caller's thread: the next driver.
addThread ==
    /\ halter.pc = "idle"
    /\ halter.submitted < MaxDrivers
    /\ toadd' = Append(toadd, halter.submitted + 1)
    /\ halter' = [halter EXCEPT !.submitted = @ + 1]
    /\ UNCHANGED <<threadqueue, runningthreads, noadd, maxcount, threads, joined,
                   sched, stopthread, late_started>>
    /\ UNCHANGED nonPoolVars

\* The run() of a driver returns.
driver_finish ==
    /\ \E t \in Drivers :
          /\ threads[t] = "alive"
          /\ threads' = [threads EXCEPT ![t] = "dead"]
    /\ UNCHANGED <<toadd, threadqueue, runningthreads, noadd, maxcount, joined,
                   sched, halter, stopthread, late_started>>
    /\ UNCHANGED nonPoolVars

\* Worker.run: `while(not self._stopthread)`.
sched_run ==
    /\ sched.pc = "run"
    /\ sched' = [sched EXCEPT !.pc = IF stopthread THEN "stopped" ELSE "drain"]
    /\ UNCHANGED <<toadd, threadqueue, runningthreads, noadd, maxcount, threads,
                   joined, halter, stopthread, late_started>>
    /\ UNCHANGED nonPoolVars

\* doWork: one turn of `while not self.toadd.empty()`, with
\* ThreadPool.addThread, which drops the driver when noadd is set.
sched_drain ==
    /\ sched.pc = "drain"
    /\ IF toadd = <<>>
       THEN /\ sched' = [sched EXCEPT !.pc = "startAll"]
            /\ UNCHANGED <<toadd, threadqueue>>
       ELSE /\ toadd' = Tail(toadd)
            /\ threadqueue' = IF noadd THEN threadqueue
                              ELSE Append(threadqueue, Head(toadd))
            /\ sched' = sched
    /\ UNCHANGED <<runningthreads, noadd, maxcount, threads, joined, halter,
                   stopthread, late_started>>
    /\ UNCHANGED nonPoolVars

\* ThreadPool.startAll up to its for loop.
sched_startAll ==
    /\ sched.pc = "startAll"
    /\ sched' = IF threadqueue = <<>> \/ maxcount - Cardinality(runningthreads) <= 0
                THEN [sched EXCEPT !.pc = "joinAll"]
                ELSE [sched EXCEPT !.pc = "runthread",
                                   !.x = maxcount - Cardinality(runningthreads)]
    /\ UNCHANGED <<toadd, threadqueue, runningthreads, noadd, maxcount, threads,
                   joined, halter, stopthread, late_started>>
    /\ UNCHANGED nonPoolVars

\* A _runthread that starts a waiting driver whatever the size of the
\* running set, called for as long as it starts one.
sched_runthread_unbounded ==
    /\ sched.pc = "runthread"
    /\ sched' = IF threadqueue # <<>> /\ ~noadd
                THEN [sched EXCEPT !.pc = "start"]
                ELSE [sched EXCEPT !.pc = "joinAll", !.x = 0]
    /\ UNCHANGED <<toadd, threadqueue, runningthreads, noadd, maxcount, threads,
                   joined, halter, stopthread, late_started>>
    /\ UNCHANGED nonPoolVars

\* One turn of `for x in range(0, scount)`: the two tests of _runthread.
\* Only this thread adds to the running set and takes from the queue, and
\* noadd is never reset, so reading the three values at once yields the
\* outcomes that reading them one after the other yields.
sched_runthread ==
    /\ sched.pc = "runthread"
    /\ sched' = IF /\ sched.x > 0
                   /\ Cardinality(runningthreads) < maxcount
                   /\ threadqueue # <<>>
                   /\ ~noadd
                THEN [sched EXCEPT !.pc = "start"]
                ELSE [sched EXCEPT !.pc = "joinAll", !.x = 0]
    /\ UNCHANGED <<toadd, threadqueue, runningthreads, noadd, maxcount, threads,
                   joined, halter, stopthread, late_started>>
    /\ UNCHANGED nonPoolVars

\* _runthread: t = self.threadqueue.get(block=True); t.start()
sched_start ==
    /\ sched.pc = "start"
    /\ threadqueue' = Tail(threadqueue)
    /\ threads' = [threads EXCEPT ![Head(threadqueue)] = "alive"]
    /\ late_started' = IF noadd THEN late_started \cup {Head(threadqueue)}
                       ELSE late_started
    /\ sched' = [sched EXCEPT !.pc = "update", !.toremove = {Head(threadqueue)}]
    /\ UNCHANGED <<toadd, runningthreads, noadd, maxcount, joined, halter,
                   stopthread>>
    /\ UNCHANGED nonPoolVars

\* _runthread: self.runningthreads.update([t])
sched_update ==
    /\ sched.pc = "update"
    /\ runningthreads' = runningthreads \cup sched.toremove
    /\ sched' = [sched EXCEPT !.pc = "runthread", !.x = @ - 1, !.toremove = {}]
    /\ UNCHANGED <<toadd, threadqueue, noadd, maxcount, threads, joined, halter,
                   stopthread, late_started>>
    /\ UNCHANGED nonPoolVars

\* ThreadPool.joinAll on the scheduler: toremove = [...]
sched_joinAll ==
    /\ sched.pc = "joinAll"
    /\ sched' = [sched EXCEPT !.pc = "remove", !.toremove = NotAlive]
    /\ UNCHANGED <<toadd, threadqueue, runningthreads, noadd, maxcount, threads,
                   joined, halter, stopthread, late_started>>
    /\ UNCHANGED nonPoolVars

\* joinAll: self.runningthreads.difference_update(toremove)
sched_remove ==
    /\ sched.pc = "remove"
    /\ runningthreads' = runningthreads \ sched.toremove
    /\ sched' = [sched EXCEPT !.pc = "join"]
    /\ UNCHANGED <<toadd, threadqueue, noadd, maxcount, threads, joined, halter,
                   stopthread, late_started>>
    /\ UNCHANGED nonPoolVars

\* joinAll: for t in toremove: t.join(); then the sleep of Worker.run.
sched_join ==
    /\ sched.pc = "join"
    /\ joined' = joined \cup sched.toremove
    /\ sched' = [sched EXCEPT !.pc = "run", !.toremove = {}]
    /\ UNCHANGED <<toadd, threadqueue, runningthreads, noadd, maxcount, threads,
                   halter, stopthread, late_started>>
    /\ UNCHANGED nonPoolVars

Scheduler ==
    \/ sched_run
    \/ sched_drain
    \/ sched_startAll
    \/ sched_runthread
    \/ sched_start
    \/ sched_update
    \/ sched_joinAll
    \/ sched_remove
    \/ sched_join

\* ThreadManager.halt_thread on the caller's thread begins with
\* ThreadPool.terminateAll: self.noadd = True
halt_noadd ==
    /\ halter.pc = "idle"
    /\ noadd' = TRUE
    /\ halter' = [halter EXCEPT !.pc = "collect"]
    /\ UNCHANGED <<toadd, threadqueue, runningthreads, maxcount, threads, joined,
                   sched, stopthread, late_started>>
    /\ UNCHANGED nonPoolVars

\* terminateAll: joinAll(), toremove = [...]
halt_collect ==
    /\ halter.pc = "collect"
    /\ halter' = [halter EXCEPT !.pc = "remove", !.toremove = NotAlive]
    /\ UNCHANGED <<toadd, threadqueue, runningthreads, noadd, maxcount, threads,
                   joined, sched, stopthread, late_started>>
    /\ UNCHANGED nonPoolVars

\* joinAll: self.runningthreads.difference_update(toremove)
halt_remove ==
    /\ halter.pc = "remove"
    /\ runningthreads' = runningthreads \ halter.toremove
    /\ halter' = [halter EXCEPT !.pc = "join"]
    /\ UNCHANGED <<toadd, threadqueue, noadd, maxcount, threads, joined, sched,
                   stopthread, late_started>>
    /\ UNCHANGED nonPoolVars

\* joinAll: for t in toremove: t.join(); then terminateAll makes the
\* iterator of `for t in self.runningthreads`, which remembers the size.
halt_join ==
    /\ halter.pc = "join"
    /\ joined' = joined \cup halter.toremove
    /\ halter' = [halter EXCEPT !.pc = "next", !.toremove = {},
                                !.orig = runningthreads, !.visited = {},
                                !.size = Cardinality(runningthreads)]
    /\ UNCHANGED <<toadd, threadqueue, runningthreads, noadd, maxcount, threads,
                   sched, stopthread, late_started>>
    /\ UNCHANGED nonPoolVars

\* The members the set iterator has yet to yield.
Unvisited == runningthreads \ halter.visited

\* terminateAll: the next turn of `for t in self.runningthreads`.  The set
\* iterator raises RuntimeError when the size of the set is not the one it
\* remembers; a member added since the loop began lies before or after the
\* iterator's position, so it is yielded or passed over.
halt_next ==
    /\ halter.pc = "next"
    /\ IF Cardinality(runningthreads) # halter.size
       THEN halter' = [halter EXCEPT !.pc = "raised"]
       ELSE \/ /\ Unvisited \cap halter.orig = {}
               /\ halter' = [halter EXCEPT !.pc = "clear"]
            \/ \E t \in Unvisited :
                  halter' = [halter EXCEPT !.pc = "wait", !.cur = t,
                                           !.visited = @ \cup {t}]
    /\ UNCHANGED <<toadd, threadqueue, runningthreads, noadd, maxcount, threads,
                   joined, sched, stopthread, late_started>>
    /\ UNCHANGED nonPoolVars

\* terminateAll: t.join() returns once the driver has terminated.
halt_wait ==
    /\ halter.pc = "wait"
    /\ threads[halter.cur] = "dead"
    /\ joined' = joined \cup {halter.cur}
    /\ halter' = [halter EXCEPT !.pc = "next", !.cur = 0]
    /\ UNCHANGED <<toadd, threadqueue, runningthreads, noadd, maxcount, threads,
                   sched, stopthread, late_started>>
    /\ UNCHANGED nonPoolVars

\* terminateAll: self.runningthreads.clear()
halt_clear ==
    /\ halter.pc = "clear"
    /\ runningthreads' = {}
    /\ halter' = [halter EXCEPT !.pc = "stop"]
    /\ UNCHANGED <<toadd, threadqueue, noadd, maxcount, threads, joined, sched,
                   stopthread, late_started>>
    /\ UNCHANGED nonPoolVars

\* Worker.halt_thread: the scheduler is alive, so self._stopthread = True
halt_stop ==
    /\ halter.pc = "stop"
    /\ stopthread' = TRUE
    /\ halter' = [halter EXCEPT !.pc = "joinsched"]
    /\ UNCHANGED <<toadd, threadqueue, runningthreads, noadd, maxcount, threads,
                   joined, sched, late_started>>
    /\ UNCHANGED nonPoolVars

\* Worker.halt_thread: self.join() returns once run() has returned, and
\* _running is False by then.
halt_joinsched ==
    /\ halter.pc = "joinsched"
    /\ sched.pc = "stopped"
    /\ halter' = [halter EXCEPT !.pc = "returned"]
    /\ UNCHANGED <<toadd, threadqueue, runningthreads, noadd, maxcount, threads,
                   joined, sched, stopthread, late_started>>
    /\ UNCHANGED nonPoolVars

halt_thread ==
    \/ halt_noadd
    \/ halt_collect
    \/ halt_remove
    \/ halt_join
    \/ halt_next
    \/ halt_wait
    \/ halt_clear
    \/ halt_stop
    \/ halt_joinsched

NextPool == addThread \/ driver_finish \/ Scheduler \/ halt_thread

InitSpecPool == InitPool /\ IdleMap /\ IdleCtor /\ IdleFile /\ IdleRun /\ IdleIgnore /\ IdleProfile /\ IdleJson /\ IdleLoad /\ IdleWalk /\ IdlePath /\ IdleExec /\ IdleTouch

SpecPool == InitSpecPool /\ [][NextPool]_vars

\* The drivers that have been started and on which no join() has returned.
StartedNotJoined == {t \in Drivers : threads[t] # "new" /\ t \notin joined}

\* The drivers whose run() is executing.
Alive == {t \in Drivers : IsAlive(t)}

\* C13: in every reachable state of the pool the running set, the drivers
\* started and not yet joined, and the drivers executing are each at most
\* maxcount, the configured thread count.
C13_PoolBound ==
    /\ Cardinality(runningthreads) <= maxcount
    /\ Cardinality(StartedNotJoined) <= maxcount
    /\ Cardinality(Alive) <= maxcount

\* The bound is met: the largest thread count, that many drivers executing,
\* and another driver waiting in the queue.
C13_Witness ==
    /\ maxcount = MaxThreadCount
    /\ Cardinality(Alive) = maxcount
    /\ Alive = runningthreads
    /\ threadqueue # <<>>
    /\ halter.pc = "idle"

(***************************************************************************)
(* The pool without shutdown, under the scheduling the code relies on:     *)
(* the scheduler thread loops in Worker.run and is given the processor     *)
(* again and again, and the work of every driver terminates.               *)
(***************************************************************************)
InitPoolLive == InitPool /\ maxcount >= 1

NextPoolLive == addThread \/ driver_finish \/ Scheduler

InitSpecPoolLive == InitPoolLive /\ IdleMap /\ IdleCtor /\ IdleFile /\ IdleRun /\ IdleIgnore /\ IdleProfile /\ IdleJson /\ IdleLoad /\ IdleWalk /\ IdlePath /\ IdleExec /\ IdleTouch

SpecPoolLive ==
    /\ InitSpecPoolLive
    /\ [][NextPoolLive]_vars
    /\ WF_vars(Scheduler)
    /\ WF_vars(driver_finish)

\* C14: with a thread count of at least one and no shutdown, every driver
\* handed to ThreadManager.addThread is eventually started, terminates and
\* is joined, also when more drivers are handed over than the thread count.
C14_EveryDriverJoined ==
    \A t \in Drivers :
        (halter.submitted >= t) ~> (threads[t] = "dead" /\ t \in joined)

\* More drivers than the thread count were handed over and all were joined.
C14_Witness ==
    /\ halter.submitted = MaxDrivers
    /\ maxcount < MaxDrivers
    /\ joined = Drivers
    /\ runningthreads = {}

\* C15: once terminateAll has set noadd, no driver is started any more: a
\* driver that has not been started stays so in every step taken while
\* noadd is set.
C15_NoStartAfterShutdown ==
    [][noadd => \A t \in Drivers : threads[t] = "new" => threads'[t] = "new"]_vars

\* A driver was started although noadd had been set before its start():
\* the scheduler had passed `if not self.noadd` when terminateAll began.
C15_StartedAfterShutdown ==
    /\ noadd
    /\ late_started # {}
    /\ \E t \in late_started : IsAlive(t)

\* C16: when ThreadManager.halt_thread has returned, the scheduler thread
\* has stopped and every driver that was started is dead and joined.
C16_ShutdownJoinsAll ==
    halter.pc = "returned" =>
        /\ sched.pc = "stopped"
        /\ \A t \in Drivers :
              threads[t] # "new" => threads[t] = "dead" /\ t \in joined

\* halt_thread has returned while a driver that the pool started before
\* noadd was set is still executing, joined by nobody and no longer in the
\* running set.
C16_ReturnedWithDriverAlive ==
    /\ halter.pc = "returned"
    /\ late_started = {}
    /\ \E t \in Drivers : IsAlive(t) /\ t \notin joined

\* C17: once Backup.abort has been set, before execute begins or while it
\* runs, the flag is not cleared again, and no step taken with the flag set
\* copies to or deletes from a destination.
C17_AbortStays ==
    [][abort => (abort' /\ dest_trees' = dest_trees)]_vars

\* abort was set before execute was called; execute cleared it and went on
\* to write to the destinations.
C17_AbortClearedByExecute ==
    /\ history # <<>>
    /\ history[1].cancelled
    /\ ~history[1].aborted
    /\ ~abort
    /\ history[1].writes > 0

\* C18: after the driver has found abort set and left its copy loop, it
\* sends no progress update; the only message it sends then is Finished.
C18_NoProgressAfterAbort ==
    \A i \in 1..Len(messages) :
        messages[i].left_loop => messages[i].kind = "finished"

\* A run that left its copy loop on abort sent a progress update (the
\* status with percent = 100) and then Finished.
C18_ProgressAfterAbort ==
    /\ pc = "finished"
    /\ history # <<>>
    /\ history[ThisRun].aborted
    /\ Len(messages) >= 2
    /\ messages[Len(messages)] = Finished(TRUE)
    /\ messages[Len(messages) - 1] = Progress(TRUE)

\* The positions of the Finished messages among those the run has sent.
FinishedAt == {i \in 1..Len(messages) : messages[i].kind = "finished"}

C20_AccessDeniedPerDestination ==
    (CopyFileEnded /\ cf_env.src_open = "PermissionError") =>
        LET r == CopyFileOutcome
        IN  /\ r.raised = "none"
            /\ Len(r.errors) = Len(cf_dsts)
            /\ \A e \in 1..Len(r.errors) : r.errors[e].type = "AccessDeniedError"
            /\ r.nodes = cf_dsts

\* The source could not be opened in a step with two destinations: the
\* step returned one AccessDeniedError, about the source, and wrote nothing.
C20_OneRecordForTwoDestinations ==
    /\ CopyFileEnded
    /\ cf_env.src_open = "PermissionError"
    /\ Len(cf_dsts) = 2
    /\ CopyFileOutcome.raised = "none"
    /\ CopyFileOutcome.errors = <<ErrorOf("AccessDeniedError", 0)>>
    /\ CopyFileOutcome.nodes = cf_dsts

(***************************************************************************)
(* The ignore set of the driver (algorithms.py).  Backup.__init__ turns    *)
(* the text of CONFIG["DEFAULT"]["ignorederrors"] into a list of error     *)
(* classes; execute hands every error of a step whose class is not in the  *)
(* list to report_error.                                                   *)
(* A text is a sequence of pieces, each piece a run of characters: the     *)
(* name of a class is one piece, a space is one piece.                     *)
(***************************************************************************)
\* The keys of recursivecopy.ERROR_TYPES.
ERROR_TYPES ==
    {"DirectoryNotEmptyError", "PathTooLongError", "PathNotThereError",
     "PathNotWorkingError", "PathOperationFailedError",
     "WrongArgumentTypeError", "WrongArgumentValueError", "CantOpenFileError",
     "NothingWasDoneError", "AccessDeniedError", "FileWriteFailure"}

\* The names a user writes into ignorederrors: names of classes that copy
\* steps yield, and "NotAccessDeniedError", a name that is not a class but
\* holds the name of one.
IgnoreWords ==
    {<<"AccessDeniedError">>, <<"CantOpenFileError">>, <<"UnexpectedError">>,
     <<"Not", "AccessDeniedError">>}

\* The classes of the errors of a step.
StepVariants ==
    {"AccessDeniedError", "CantOpenFileError", "UnexpectedError",
     "FileWriteFailure"}

MaxIgnoreNames == 2

MaxStepErrors == 3

RECURSIVE JoinWords(_)
\* " ".join(words): the text of the configuration entry.
JoinWords(words) ==
    IF words = <<>> THEN <<>>
    ELSE IF Len(words) = 1 THEN words[1]
    ELSE words[1] \o <<" ">> \o JoinWords(Tail(words))

\* `key in text` for a key that is one piece: the text holds the key.
KeyInText(key, text) == \E i \in 1..Len(text) : text[i] = key

\* Backup.__init__: the classes of ERROR_TYPES whose key is in the text.
IgnoredErrorsOf(text) == {key \in ERROR_TYPES : KeyInText(key, text)}

RECURSIVE ForwardedErrors(_, _)
\* The loop over the errors of a step: those handed to report_error.
ForwardedErrors(errors, ignored) ==
    IF errors = <<>> THEN <<>>
    ELSE IF Head(errors) \notin ignored
         THEN <<Head(errors)>> \o ForwardedErrors(Tail(errors), ignored)
         ELSE ForwardedErrors(Tail(errors), ignored)

InitIgnore ==
    /\ ignorederrors \in SeqsUpTo(IgnoreWords, MaxIgnoreNames)
    /\ step_errors \in SeqsUpTo(StepVariants, MaxStepErrors)
    /\ ignored_errors = <<>>
    /\ reported = <<>>

\* Backup.__init__
backup_init ==
    /\ ignored_errors = <<>>
    /\ ignored_errors' = <<IgnoredErrorsOf(JoinWords(ignorederrors))>>
    /\ UNCHANGED <<ignorederrors, step_errors, reported>>
    /\ UNCHANGED nonIgnoreVars

\* Backup.execute: `for error in errors` after one next(iterator).
report_step_errors ==
    /\ ignored_errors # <<>>
    /\ reported = <<>>
    /\ reported' = <<ForwardedErrors(step_errors, ignored_errors[1])>>
    /\ UNCHANGED <<ignorederrors, ignored_errors, step_errors>>
    /\ UNCHANGED nonIgnoreVars

NextIgnore == backup_init \/ report_step_errors

InitSpecIgnore == InitIgnore /\ IdleMap /\ IdleCtor /\ IdleFile /\ IdleRun /\ IdlePool /\ IdleProfile /\ IdleJson /\ IdleLoad /\ IdleWalk /\ IdlePath /\ IdleExec /\ IdleTouch

SpecIgnore == InitSpecIgnore /\ [][NextIgnore]_vars

\* The names of ignorederrors that are names of classes.
ConfiguredNames == {w[1] : w \in {x \in Range(ignorederrors) : Len(x) = 1}}

RECURSIVE NotConfigured(_)
\* The errors of a list whose class is not one of the configured names.
NotConfigured(errors) ==
    IF errors = <<>> THEN <<>>
    ELSE IF Head(errors) \notin ConfiguredNames
         THEN <<Head(errors)>> \o NotConfigured(Tail(errors))
         ELSE NotConfigured(Tail(errors))

\* C21: the errors of a step that report_error receives are those whose
\* class is not one of the space-separated names of ignorederrors, in the
\* order in which the step yielded them.
C21_ForwardedIffNotConfigured ==
    reported # <<>> => reported[1] = NotConfigured(step_errors)

\* ignorederrors names UnexpectedError, the step yielded an error of that
\* class, and report_error received it.
C21_UnexpectedErrorForwarded ==
    /\ reported # <<>>
    /\ ignorederrors = <<<<"UnexpectedError">>>>
    /\ step_errors = <<"UnexpectedError">>
    /\ reported[1] = <<"UnexpectedError">>

\* C22: the percent of every status the driver sends is between 0 and 100:
\* the status of the driver holds the percent it has just sent.
C22_PercentInRange ==
    /\ status.den > 0
    /\ 0 <= status.num
    /\ status.num <= 100 * status.den

\* A source directory that holds a single file: the count made before the
\* copy is 1, the walker yields the root and the file, and after the second
\* step the driver sent a status whose percent is 200.
C22_PercentOverHundred ==
    /\ pc = "copy"
    /\ sources_count = 1
    /\ sources_copied = 2
    /\ status = Percent(200, 1)
    /\ messages[Len(messages)] = Progress(FALSE)

(***************************************************************************)
(* The profile collection (data.py) and the widget that edits one profile  *)
(* (UI/MainWindowWidgets.py).  A profile is its name and its ID; the file  *)
(* at profilepath may have been edited by hand and hold any IDs.           *)
(***************************************************************************)
MaxProfiles == 3

ProfileNames == {"", "a"}

BackupProfile(name, ID) == [name |-> name, ID |-> ID]

\* What the file at profilepath holds when the program starts.
ProfileFiles ==
    SeqsUpTo({BackupProfile(n, i) : n \in {"a"}, i \in 0..(MaxProfiles - 1)},
             MaxProfiles)

\* An assignID that gives every profile the ID 0.
AssignZero(ids) == 0

RECURSIVE CountUp(_, _)
\* `while self.ID in ids: self.ID += 1`
CountUp(ids, n) == IF n \in ids THEN CountUp(ids, n + 1) ELSE n

\* BackupProfile.assignID: the new ID, for the IDs of the list given.
AssignID(ids) == CountUp(ids, 0)

\* [e.ID for e in profiles], as a set
IDsOf(ps) == {ps[i].ID : i \in 1..Len(ps)}

RECURSIVE Matches(_, _)
\* [p for p in profiles if p.ID == id]
Matches(ps, id) ==
    IF ps = <<>> THEN <<>>
    ELSE IF Head(ps).ID = id THEN <<Head(ps)>> \o Matches(Tail(ps), id)
         ELSE Matches(Tail(ps), id)

\* BackupProfile.getById: <<>> for None, or <<p>>
GetById(ps, id) ==
    IF Len(Matches(ps, id)) = 1 THEN <<Matches(ps, id)[1]>> ELSE <<>>

RECURSIVE AssignFrom(_, _)
\* The second loop of reassignAllIds, from the profile number i on.
AssignFrom(ps, i) ==
    IF i > Len(ps) THEN ps
    ELSE AssignFrom([ps EXCEPT ![i].ID = AssignID(IDsOf(ps))], i + 1)

\* BackupProfile.reassignAllIds
ReassignAllIds(ps) ==
    AssignFrom([i \in 1..Len(ps) |-> [ps[i] EXCEPT !.ID = -1]], 1)

\* The index of the first profile of the list with the ID.
FirstWithID(ps, id) == CHOOSE x \in 1..Len(ps) :
    ps[x].ID = id /\ \A y \in 1..(x - 1) : ps[y].ID # id

InitProfile ==
    /\ profiles = <<>>
    /\ profile_file \in ProfileFiles
    /\ editor = <<>>

\* ProgramData._load_profiles
load_profiles ==
    /\ editor = <<>>
    /\ profiles' = ReassignAllIds(profile_file)
    /\ UNCHANGED <<profile_file, editor>>
    /\ UNCHANGED nonProfileVars

\* EditBackupProfileWidget.__init__ with profile_id = -1: a new profile.
edit_new_profile ==
    /\ editor = <<>>
    /\ Len(profiles) < MaxProfiles
    /\ editor' = <<BackupProfile("", AssignID(IDsOf(profiles)))>>
    /\ UNCHANGED <<profiles, profile_file>>
    /\ UNCHANGED nonProfileVars

\* EditBackupProfileWidget.__init__ with the ID of a profile of the list;
\* BackupProfileNotFoundError is raised when getById returns None.
edit_profile ==
    /\ editor = <<>>
    /\ \E i \in 1..Len(profiles) :
          editor' = GetById(profiles, profiles[i].ID)
    /\ UNCHANGED <<profiles, profile_file>>
    /\ UNCHANGED nonProfileVars

\* _set_profile_name: the profile of the widget is the object that the
\* list holds, when it was taken from the list.
set_profile_name ==
    /\ editor # <<>>
    /\ \E n \in ProfileNames :
          /\ editor' = <<[editor[1] EXCEPT !.name = n]>>
          /\ profiles' = IF GetById(profiles, editor[1].ID) # <<>>
                         THEN [profiles EXCEPT
                                 ![FirstWithID(profiles, editor[1].ID)].name = n]
                         ELSE profiles
    /\ UNCHANGED profile_file
    /\ UNCHANGED nonProfileVars

\* _finish_editing_profile, with PDATA.save()
finish_editing_profile ==
    /\ editor # <<>>
    /\ profiles' =
          IF GetById(profiles, editor[1].ID) # <<>>
          THEN [profiles EXCEPT ![FirstWithID(profiles, editor[1].ID)] = editor[1]]
          ELSE Append(profiles,
                      [editor[1] EXCEPT !.ID = AssignID(IDsOf(profiles))])
    /\ profile_file' = profiles'
    /\ editor' = <<>>
    /\ UNCHANGED nonProfileVars

\* _delete_backup_profile, with PDATA.save() when a profile was removed
delete_backup_profile ==
    /\ editor # <<>>
    /\ IF GetById(profiles, editor[1].ID) # <<>>
       THEN LET x == FirstWithID(profiles, editor[1].ID)
            IN  /\ profiles' = SubSeq(profiles, 1, x - 1)
                                 \o SubSeq(profiles, x + 1, Len(profiles))
                /\ profile_file' = profiles'
       ELSE UNCHANGED <<profiles, profile_file>>
    /\ editor' = <<>>
    /\ UNCHANGED nonProfileVars

\* _cancel_edit
cancel_edit ==
    /\ editor # <<>>
    /\ editor' = <<>>
    /\ UNCHANGED <<profiles, profile_file>>
    /\ UNCHANGED nonProfileVars

NextProfile ==
    \/ load_profiles
    \/ edit_new_profile
    \/ edit_profile
    \/ set_profile_name
    \/ finish_editing_profile
    \/ delete_backup_profile
    \/ cancel_edit

InitSpecProfile == InitProfile /\ IdleMap /\ IdleCtor /\ IdleFile /\ IdleRun /\ IdlePool /\ IdleIgnore /\ IdleJson /\ IdleLoad /\ IdleWalk /\ IdlePath /\ IdleExec /\ IdleTouch

SpecProfile == InitSpecProfile /\ [][NextProfile]_vars

\* The number of profiles of a list that have the ID.
CountWithID(ps, id) == Cardinality({i \in 1..Len(ps) : ps[i].ID = id})

\* C23: the profiles of the collection have pairwise distinct IDs, after
\* loading and after any creating, editing and deleting; getById, on the
\* collection and on the profiles of the file, returns a profile only for
\* an ID that exactly one profile has, and returns that profile.
C23_ProfileIDsDistinct ==
    /\ \A i, j \in 1..Len(profiles) :
          profiles[i].ID = profiles[j].ID => i = j
    /\ \A ps \in {profiles, profile_file} :
          \A id \in -1..MaxProfiles :
              GetById(ps, id) # <<>> =>
                  /\ CountWithID(ps, id) = 1
                  /\ GetById(ps, id)[1].ID = id

\* The collection was loaded, a profile was deleted and a new one created,
\* which got the ID that had become free; the collection is full.
C23_Witness ==
    /\ Len(profiles) = MaxProfiles
    /\ editor = <<>>
    /\ \E i \in 1..Len(profiles) : profiles[i].name = ""
    /\ \E i \in 1..Len(profiles) : profiles[i].name = "a"
    /\ profiles[Len(profiles)].ID < MaxProfiles - 1

(***************************************************************************)
(* BackupProfile.writejson and readjson (data.py).  A text is a sequence   *)
(* of characters.  The document is the array that json.dump writes: one    *)
(* object per profile with the keys name, sources, destinations and id,    *)
(* every string as its JSON string token and the ID as its decimal numeral.*)
(***************************************************************************)
MaxJsonProfiles == 2

\* Names and paths: the characters that JSON escapes are among them.
JsonStrings == {<<>>, <<"a">>, <<"\"", "a">>, <<"\\", "n">>}

JsonPathLists == {<<>>, <<<<"/", "a">>, <<"\\">>>>}

JsonIDs == {-1, 10}

JsonProfiles ==
    [name : JsonStrings, sources : JsonPathLists,
     destinations : JsonPathLists, ID : JsonIDs]

Digits == <<"0", "1", "2", "3", "4", "5", "6", "7", "8", "9">>

\* The characters of a JSON string token for one character of the string.
EscapeChar(c) ==
    IF c = "\"" THEN <<"\\", "\"">>
    ELSE IF c = "\\" THEN <<"\\", "\\">>
    ELSE IF c = "\n" THEN <<"\\", "n">>
    ELSE <<c>>

RECURSIVE EscapeText(_)
EscapeText(s) ==
    IF s = <<>> THEN <<>> ELSE EscapeChar(Head(s)) \o EscapeText(Tail(s))

\* json.dump of a str
DumpString(s) == <<"\"">> \o EscapeText(s) \o <<"\"">>

RECURSIVE UnescapeText(_)
\* The string of the inside of a JSON string token.
UnescapeText(t) ==
    IF t = <<>> THEN <<>>
    ELSE IF Head(t) = "\\"
         THEN <<IF t[2] = "n" THEN "\n" ELSE t[2]>>
                 \o UnescapeText(Tail(Tail(t)))
         ELSE <<Head(t)>> \o UnescapeText(Tail(t))

\* json.load of a string token
LoadString(t) == UnescapeText(SubSeq(t, 2, Len(t) - 1))

RECURSIVE DumpNat(_)
DumpNat(n) ==
    IF n < 10 THEN <<Digits[n + 1]>>
    ELSE DumpNat(n \div 10) \o <<Digits[(n % 10) + 1]>>

\* json.dump of an int
DumpInt(n) == IF n < 0 THEN <<"-">> \o DumpNat(0 - n) ELSE DumpNat(n)

DigitValue(c) == (CHOOSE i \in 1..10 : Digits[i] = c) - 1

RECURSIVE LoadNat(_, _)
LoadNat(t, acc) ==
    IF t = <<>> THEN acc ELSE LoadNat(Tail(t), acc * 10 + DigitValue(Head(t)))

\* json.load of a numeral
LoadInt(t) == IF Head(t) = "-" THEN 0 - LoadNat(Tail(t), 0) ELSE LoadNat(t, 0)

DumpList(l) == [i \in 1..Len(l) |-> DumpString(l[i])]

LoadList(l) == [i \in 1..Len(l) |-> LoadString(l[i])]

\* The object that writejson makes of a profile, as json.dump writes it.
DumpProfile(p) ==
    [name |-> DumpString(p.name), sources |-> DumpList(p.sources),
     destinations |-> DumpList(p.destinations), id |-> DumpInt(p.ID)]

\* The dict that json.load makes of an object of the document.
LoadEntry(o) ==
    [name |-> LoadString(o.name), sources |-> LoadList(o.sources),
     destinations |-> LoadList(o.destinations), id |-> LoadInt(o.id)]

\* A _profile_from_dict that takes the sources for the destinations.
ProfileFromDictSwapped(entry) ==
    [name |-> entry.name, sources |-> entry.destinations,
     destinations |-> entry.sources, ID |-> entry.id]

\* _profile_from_dict
ProfileFromDict(entry) ==
    [name |-> entry.name, sources |-> entry.sources,
     destinations |-> entry.destinations, ID |-> entry.id]

\* The document that writejson(profiles, filename) leaves in the file.
WriteJson(ps) == [i \in 1..Len(ps) |-> DumpProfile(ps[i])]

\* readjson(filename): file is <<>> when filename is not a regular file.
ReadJson(file) ==
    IF file = <<>> THEN <<>>
    ELSE [i \in 1..Len(file[1]) |-> ProfileFromDict(LoadEntry(file[1][i]))]

InitJson ==
    /\ json_profiles = <<>>
    /\ json_file = <<>>
    /\ json_loaded = <<>>

\* The caller puts one more profile into the list it is going to write.
json_append ==
    /\ json_file = <<>>
    /\ json_loaded = <<>>
    /\ Len(json_profiles) < MaxJsonProfiles
    /\ \E p \in JsonProfiles : json_profiles' = Append(json_profiles, p)
    /\ UNCHANGED <<json_file, json_loaded>>
    /\ UNCHANGED nonJsonVars

\* BackupProfile.writejson
writejson ==
    /\ json_file = <<>>
    /\ json_loaded = <<>>
    /\ json_file' = <<WriteJson(json_profiles)>>
    /\ UNCHANGED <<json_profiles, json_loaded>>
    /\ UNCHANGED nonJsonVars

\* BackupProfile.readjson
readjson ==
    /\ json_loaded' = <<ReadJson(json_file)>>
    /\ UNCHANGED <<json_profiles, json_file>>
    /\ UNCHANGED nonJsonVars

NextJson ==
    \/ json_append
    \/ writejson
    \/ readjson

InitSpecJson == InitJson /\ IdleMap /\ IdleCtor /\ IdleFile /\ IdleRun /\ IdlePool /\ IdleIgnore /\ IdleProfile /\ IdleLoad /\ IdleWalk /\ IdlePath /\ IdleExec /\ IdleTouch

SpecJson == InitSpecJson /\ [][NextJson]_vars

\* C24: the list that readjson returns for the file that writejson wrote
\* equals the list written: as many profiles, in the same order, each with
\* the name, the sources, the destinations and the ID of the original.
C24_RoundTrip ==
    (json_file # <<>> /\ json_loaded # <<>>) =>
        /\ Len(json_loaded[1]) = Len(json_profiles)
        /\ \A i \in 1..Len(json_profiles) :
              /\ json_loaded[1][i].name = json_profiles[i].name
              /\ json_loaded[1][i].sources = json_profiles[i].sources
              /\ json_loaded[1][i].destinations = json_profiles[i].destinations
              /\ json_loaded[1][i].ID = json_profiles[i].ID

\* Two different profiles were written and read back: the first has a name
\* with a backslash, sources and a negative ID, the second a name with a
\* quote, no sources and a two-digit ID.
C24_Witness ==
    /\ json_file # <<>>
    /\ json_loaded # <<>>
    /\ Len(json_profiles) = 2
    /\ json_profiles[1].name = <<"\\", "n">>
    /\ json_profiles[1].sources # <<>>
    /\ json_profiles[1].destinations = <<>>
    /\ json_profiles[1].ID = -1
    /\ json_profiles[2].name = <<"\"", "a">>
    /\ json_profiles[2].sources = <<>>
    /\ json_profiles[2].ID = 10
    /\ json_loaded[1] = json_profiles

(***************************************************************************)
(* BackupMapping.load (data.py).  At the path there is nothing, a          *)
(* directory, a symbolic link, or a regular file; the text of a regular    *)
(* file is not JSON at all, or it is a JSON object that has some of the    *)
(* keys backupid and mapping.                                              *)
(***************************************************************************)
JsonNull == [t |-> "null"]

JsonInt(n) == [t |-> "int", n |-> n]

JsonStr(s) == [t |-> "str", s |-> s]

JsonObject(d) == [t |-> "object", d |-> d]

\* The mappings that a BackupMapping holds or that a document holds.
LoadMaps ==
    {EmptyDict, DictSet(EmptyDict, "/src/x", "001"),
     DictSet(DictSet(EmptyDict, "/src/x", "002"), "/src/y", "001")}

LoadIds == {0, 1, 2}

BackupIdValues ==
    {JsonInt(1), JsonInt(2), JsonStr(<<"2">>), JsonStr(<<"x">>), JsonNull}

MappingValues == {JsonObject(m) : m \in LoadMaps} \cup {JsonNull}

\* The JSON objects of a regular file: each key is there or is not.
LoadDocuments ==
    {EmptyDict}
    \cup {DictSet(EmptyDict, "backupid", b) : b \in BackupIdValues}
    \cup {DictSet(EmptyDict, "mapping", m) : m \in MappingValues}
    \cup {DictSet(DictSet(EmptyDict, "backupid", b), "mapping", m) :
             b \in BackupIdValues, m \in MappingValues}

LoadFiles ==
    {[kind |-> "missing"], [kind |-> "directory"], [kind |-> "corrupt"]}
    \cup {[kind |-> "symlink", data |-> d] : d \in LoadDocuments}
    \cup {[kind |-> "regular", data |-> d] : d \in LoadDocuments}

\* os.path.isfile(filename) and not os.path.islink(filename)
IsPlainFile(file) == file.kind \in {"regular", "corrupt"}

\* "ok" or the exception of int(value)
IntOutcome(value) ==
    IF value.t = "int" THEN "ok"
    ELSE IF value.t = "null" THEN "TypeError"
    ELSE IF \A i \in 1..Len(value.s) : value.s[i] \in Range(Digits)
         THEN "ok" ELSE "ValueError"

\* int(value), where it has a result
IntOf(value) == IF value.t = "int" THEN value.n ELSE LoadNat(value.s, 0)

\* "ok" or the exception of dict(value)
DictOutcome(value) == IF value.t = "object" THEN "ok" ELSE "TypeError"

\* The BackupMapping after load of a plain file, statement by statement.
LoadAssigned(self, file) ==
    IF file.kind = "corrupt" THEN self
    ELSE IF "backupid" \notin DOMAIN file.data THEN self
    ELSE IF IntOutcome(file.data["backupid"]) # "ok" THEN self
    ELSE IF \/ "mapping" \notin DOMAIN file.data
            \/ DictOutcome(file.data["mapping"]) # "ok"
         THEN [self EXCEPT !.backup_id = IntOf(file.data["backupid"])]
    ELSE [sourcemap |-> file.data["mapping"].d,
          backup_id |-> IntOf(file.data["backupid"])]

\* What load of a plain file returns, or the exception it raises.
LoadOutcome(file) ==
    IF file.kind = "corrupt" THEN "JSONDecodeError"
    ELSE IF "backupid" \notin DOMAIN file.data THEN "KeyError"
    ELSE IF IntOutcome(file.data["backupid"]) # "ok"
         THEN IntOutcome(file.data["backupid"])
    ELSE IF "mapping" \notin DOMAIN file.data THEN "KeyError"
    ELSE IF DictOutcome(file.data["mapping"]) # "ok"
         THEN DictOutcome(file.data["mapping"])
    ELSE "True"

InitLoad ==
    /\ bm \in [sourcemap : LoadMaps, backup_id : LoadIds]
    /\ bm_file = [kind |-> "missing"]
    /\ bm_before = bm
    /\ bm_result = "none"

\* BackupMapping.load(filename)
load ==
    /\ \E file \in LoadFiles :
          /\ bm_file' = file
          /\ bm_before' = bm
          /\ IF IsPlainFile(file)
             THEN /\ bm' = LoadAssigned(bm, file)
                  /\ bm_result' = LoadOutcome(file)
             ELSE /\ bm' = bm
                  /\ bm_result' = "False"
    /\ UNCHANGED nonLoadVars

NextLoad == load

InitSpecLoad == InitLoad /\ IdleMap /\ IdleCtor /\ IdleFile /\ IdleRun /\ IdlePool /\ IdleIgnore /\ IdleProfile /\ IdleJson /\ IdleWalk /\ IdlePath /\ IdleExec /\ IdleTouch

SpecLoad == InitSpecLoad /\ [][NextLoad]_vars

\* The path is missing or a symbolic link, or the file is corrupt, or its
\* document lacks a key or holds a value that is no ID or no mapping.
BadLoadFile(file) ==
    \/ file.kind \in {"missing", "symlink", "corrupt"}
    \/ /\ file.kind = "regular"
       /\ \/ DOMAIN file.data # {"backupid", "mapping"}
          \/ IntOutcome(file.data["backupid"]) # "ok"
          \/ DictOutcome(file.data["mapping"]) # "ok"

\* C25: load of a path that is missing, is a symbolic link, or holds a
\* corrupt or incomplete document returns False, raises nothing, and leaves
\* the sourcemap and the backup_id as they were before the call.
C25_SilentLoadFailure ==
    (bm_result # "none" /\ BadLoadFile(bm_file)) =>
        /\ bm_result = "False"
        /\ bm = bm_before

\* The document has a backupid and no mapping: load raised KeyError after
\* it had assigned the backup_id of the document.
C25_RaisedAndIdChanged ==
    /\ bm_file.kind = "regular"
    /\ DOMAIN bm_file.data = {"backupid"}
    /\ bm_result = "KeyError"
    /\ bm.backup_id # bm_before.backup_id
    /\ bm.sourcemap = bm_before.sourcemap

(***************************************************************************)
(* class recursive (iterator.py), call by call.  A path is the sequence of *)
(* the names below the root.  os.walk lists a directory, gives its path    *)
(* with the names of its directories and of its other entries in the order *)
(* of the directory read, and then walks the directories that are not      *)
(* links, in that order.                                                   *)
(***************************************************************************)
RootNames == {"a", "b", "c"}

SubNames == {"x", "y"}

WalkPaths ==
    {<<>>} \cup {<<n>> : n \in RootNames}
           \cup {<<n, m>> : n \in RootNames, m \in SubNames}

\* The tree with the kinds rk for the entries of the root and sk for the
\* entries of its directories.
WalkTreeOf(rk, sk) ==
    [p \in WalkPaths |->
        IF p = <<>> THEN "dir"
        ELSE IF Len(p) = 1 THEN rk[p[1]]
        ELSE IF rk[p[1]] = "dir" THEN sk[p] ELSE "none"]

WalkTrees ==
    {WalkTreeOf(rk, sk) :
        rk \in [RootNames -> {"none", "file", "dir", "linkdir"}],
        sk \in [{p \in WalkPaths : Len(p) = 2} -> {"none", "file", "dir"}]}

RECURSIVE ScanFrom(_, _, _)
ScanFrom(tree, d, names) ==
    IF names = <<>> THEN <<>>
    ELSE IF Append(d, Head(names)) \in WalkPaths
            /\ tree[Append(d, Head(names))] # "none"
         THEN <<Head(names)>> \o ScanFrom(tree, d, Tail(names))
         ELSE ScanFrom(tree, d, Tail(names))

\* os.scandir(d): the names of the entries of d, in the order of the read.
ScanDir(tree, order, d) ==
    ScanFrom(tree, d, IF d = <<>> THEN order.root ELSE order.sub)

RECURSIVE WalkDirs(_, _, _)
\* os.walk: the entries for which is_dir() holds, links included
WalkDirs(tree, d, names) ==
    IF names = <<>> THEN <<>>
    ELSE IF tree[Append(d, Head(names))] \in {"dir", "linkdir"}
         THEN <<Head(names)>> \o WalkDirs(tree, d, Tail(names))
         ELSE WalkDirs(tree, d, Tail(names))

RECURSIVE WalkFilesReversed(_, _, _)
\* The other entries, the last one read first.
WalkFilesReversed(tree, d, names) ==
    IF names = <<>> THEN <<>>
    ELSE IF tree[Append(d, Head(names))] \notin {"dir", "linkdir"}
         THEN WalkFilesReversed(tree, d, Tail(names)) \o <<Head(names)>>
         ELSE WalkFilesReversed(tree, d, Tail(names))

RECURSIVE WalkFiles(_, _, _)
\* os.walk: the other entries, in the order of the read
WalkFiles(tree, d, names) ==
    IF names = <<>> THEN <<>>
    ELSE IF tree[Append(d, Head(names))] \notin {"dir", "linkdir"}
         THEN <<Head(names)>> \o WalkFiles(tree, d, Tail(names))
         ELSE WalkFiles(tree, d, Tail(names))

RECURSIVE WalkInto(_, _, _)
\* os.walk: the directories of d it is going to walk: those that are not links
WalkInto(tree, d, dirs) ==
    IF dirs = <<>> THEN <<>>
    ELSE IF tree[Append(d, Head(dirs))] = "dir"
         THEN <<Append(d, Head(dirs))>> \o WalkInto(tree, d, Tail(dirs))
         ELSE WalkInto(tree, d, Tail(dirs))

\* recursive.__init__
NewRecursive ==
    [returned_parent |-> FALSE, files |-> <<>>, files_pos |-> 0,
     dirs |-> <<>>, path |-> <<>>]

InitWalk ==
    /\ walk_tree \in WalkTrees
    /\ walk_order \in [root : Orders(RootNames), sub : Orders(SubNames)]
    /\ walk_stack = << <<>> >>
    /\ rec = NewRecursive
    /\ yielded = <<>>
    /\ walk_done = FALSE

\* The first statement of __next__: returned_parent after it.  files is
\* <<>> for None and <<the list>> otherwise.
ReturnedParent(r) ==
    IF r.files # <<>> /\ r.files_pos >= Len(r.files[1])
    THEN FALSE ELSE r.returned_parent

\* __next__ takes the next directory of os.walk and returns its path.
next_directory ==
    /\ ~walk_done
    /\ ~ReturnedParent(rec)
    /\ walk_stack # <<>>
    /\ rec' = [returned_parent |-> TRUE,
               files |-> <<WalkFiles(walk_tree, Head(walk_stack),
                             ScanDir(walk_tree, walk_order, Head(walk_stack)))>>,
               files_pos |-> 0,
               dirs |-> WalkDirs(walk_tree, Head(walk_stack),
                             ScanDir(walk_tree, walk_order, Head(walk_stack))),
               path |-> Head(walk_stack)]
    /\ walk_stack' = WalkInto(walk_tree, Head(walk_stack), rec'.dirs)
                        \o Tail(walk_stack)
    /\ yielded' = Append(yielded, Head(walk_stack))
    /\ UNCHANGED <<walk_tree, walk_order, walk_done>>
    /\ UNCHANGED nonWalkVars

\* __next__ returns the next file of the directory: os.path.join(path, file)
next_file ==
    /\ ~walk_done
    /\ ReturnedParent(rec)
    /\ rec.files # <<>>
    /\ rec.files_pos < Len(rec.files[1])
    /\ yielded' = Append(yielded, Append(rec.path, rec.files[1][rec.files_pos + 1]))
    /\ rec' = [rec EXCEPT !.files_pos = rec.files_pos + 1]
    /\ UNCHANGED <<walk_tree, walk_order, walk_stack, walk_done>>
    /\ UNCHANGED nonWalkVars

\* __next__ when os.walk has no more directories: StopIteration.
next_stop ==
    /\ ~walk_done
    /\ ~ReturnedParent(rec)
    /\ walk_stack = <<>>
    /\ walk_done' = TRUE
    /\ rec' = [rec EXCEPT !.returned_parent = FALSE]
    /\ UNCHANGED <<walk_tree, walk_order, walk_stack, yielded>>
    /\ UNCHANGED nonWalkVars

NextWalk ==
    \/ next_directory
    \/ next_file
    \/ next_stop

InitSpecWalk == InitWalk /\ IdleMap /\ IdleCtor /\ IdleFile /\ IdleRun /\ IdlePool /\ IdleIgnore /\ IdleProfile /\ IdleJson /\ IdleLoad /\ IdlePath /\ IdleExec /\ IdleTouch

SpecWalk == InitSpecWalk /\ [][NextWalk]_vars

\* The place of a name in the read of a directory.
ReadPos(d, name) ==
    CHOOSE k \in 1..Len(ScanDir(walk_tree, walk_order, d)) :
        ScanDir(walk_tree, walk_order, d)[k] = name

\* The files of a directory that the read lists before the file p.
FilesReadBefore(p) ==
    {n \in Range(ScanDir(walk_tree, walk_order, Parent(p))) :
        /\ walk_tree[Append(Parent(p), n)] = "file"
        /\ ReadPos(Parent(p), n) < ReadPos(Parent(p), p[Len(p)])}

\* C26: the first path yielded is the root; a file is yielded after its
\* directory, at the place after it that the file has among the files of
\* the directory in the order of the directory read; a path in or below a
\* subdirectory of a directory is yielded only after all the files of that
\* directory.
C26_WalkerOrder ==
    /\ yielded # <<>> => yielded[1] = <<>>
    /\ \A i \in 1..Len(yielded) :
          walk_tree[yielded[i]] = "file" =>
              /\ i - Cardinality(FilesReadBefore(yielded[i])) - 1 >= 1
              /\ yielded[i - Cardinality(FilesReadBefore(yielded[i])) - 1]
                     = Parent(yielded[i])
    /\ \A i \in 1..Len(yielded) :
          \A d \in Range(yielded) :
              (/\ walk_tree[d] = "dir"
               /\ IsUnder(d, yielded[i])
               /\ yielded[i] # d
               /\ ~(Parent(yielded[i]) = d /\ walk_tree[yielded[i]] = "file"))
              => \A f \in WalkPaths :
                    (f # <<>> /\ Parent(f) = d /\ walk_tree[f] = "file")
                    => \E k \in 1..(i - 1) : yielded[k] = f

\* The walk of a root that holds two files and a directory, read with the
\* directory between the files, the directory holding a file and an empty
\* directory, has ended.
C26_Witness ==
    /\ walk_done
    /\ walk_order.root = <<"a", "b", "c">>
    /\ walk_order.sub = <<"y", "x">>
    /\ walk_tree[<<"a">>] = "file"
    /\ walk_tree[<<"b">>] = "dir"
    /\ walk_tree[<<"c">>] = "file"
    /\ walk_tree[<<"b", "x">>] = "file"
    /\ walk_tree[<<"b", "y">>] = "dir"
    /\ yielded = << <<>>, <<"a">>, <<"c">>, <<"b">>, <<"b", "x">>, <<"b", "y">> >>

(***************************************************************************)
(* ischild and split_path (iterator.py) on absolute paths.  The state      *)
(* holds a path as the sequence of its names; the functions are given the  *)
(* str, which is what os.walk and recursive build with os.path.join from   *)
(* the root downwards.                                                     *)
(***************************************************************************)
\* The names of directory entries: one begins with another, two differ in
\* case only.
EntryNames == {<<"a">>, <<"A">>, <<"a", "b">>}

MaxPathDepth == 2

NamePaths == SeqsUpTo(EntryNames, MaxPathDepth)

RECURSIVE JoinBelow(_, _)
\* The str that the walker yields for the names below the directory top.
JoinBelow(top, names) ==
    IF names = <<>> THEN top
    ELSE JoinBelow(PathJoin(top, Head(names)), Tail(names))

\* The str of the path with the names, from the filesystem root.
PathStr(names) == JoinBelow(<<Sep>>, names)

\* split_path(parent, child); both paths are absolute
SplitPath(parent, child) ==
    IF IsChild(parent, child)
    THEN <<parent, SubSeq(child, Len(parent) + 2, Len(child))>>
    ELSE <<parent, <<>>>>

InitPath ==
    /\ sp_parent \in NamePaths
    /\ sp_child \in NamePaths
    /\ sp_ischild = <<>>
    /\ sp_split = <<>>

call_ischild ==
    /\ sp_ischild = <<>>
    /\ sp_ischild' = <<IsChild(PathStr(sp_parent), PathStr(sp_child))>>
    /\ UNCHANGED <<sp_parent, sp_child, sp_split>>
    /\ UNCHANGED nonPathVars

call_split_path ==
    /\ sp_split = <<>>
    /\ sp_split' = SplitPath(PathStr(sp_parent), PathStr(sp_child))
    /\ UNCHANGED <<sp_parent, sp_child, sp_ischild>>
    /\ UNCHANGED nonPathVars

NextPath ==
    \/ call_ischild
    \/ call_split_path

InitSpecPath == InitPath /\ IdleMap /\ IdleCtor /\ IdleFile /\ IdleRun /\ IdlePool /\ IdleIgnore /\ IdleProfile /\ IdleJson /\ IdleLoad /\ IdleWalk /\ IdleExec /\ IdleTouch

SpecPath == InitSpecPath /\ [][NextPath]_vars

\* The str child begins with the str parent, character by character.
BeginsWith(child, parent) ==
    /\ Len(parent) <= Len(child)
    /\ \A i \in 1..Len(parent) : child[i] = parent[i]

\* C27: ischild(parent, child) is true exactly when the child str begins
\* with the parent str; it is true for the parent itself and for every path
\* a walker of the parent yields; it is false for a path that is not
\* located under the parent.
C27_IsChild ==
    sp_ischild # <<>> =>
        /\ sp_ischild[1] = BeginsWith(PathStr(sp_child), PathStr(sp_parent))
        /\ IsUnder(sp_parent, sp_child) => sp_ischild[1] = TRUE
        /\ ~IsUnder(sp_parent, sp_child) => sp_ischild[1] = FALSE

\* ischild("/a", "/ab") returned True: the directory ab is beside a.
C27_SiblingIsChild ==
    /\ sp_parent = << <<"a">> >>
    /\ sp_child = << <<"a", "b">> >>
    /\ sp_ischild = <<TRUE>>

\* C28: for a path p that a walker of R yields, p # R, os.path.join of the
\* two components of split_path(R, p) is p; for p = R the suffix is empty;
\* for a p that is not located under R the suffix is empty.
C28_SplitPathRoundTrip ==
    sp_split # <<>> =>
        /\ (IsUnder(sp_parent, sp_child) /\ sp_child # sp_parent)
              => PathJoin(sp_split[1], sp_split[2]) = PathStr(sp_child)
        /\ sp_child = sp_parent => sp_split[2] = <<>>
        /\ ~IsUnder(sp_parent, sp_child) => sp_split[2] = <<>>

\* split_path("/", "/ab") returned ("/", "b"), and the join of the two is
\* "/b".
C28_RootSuffixCut ==
    /\ sp_parent = <<>>
    /\ sp_child = << <<"a", "b">> >>
    /\ sp_split = << <<"/">>, <<"b">> >>
    /\ PathJoin(sp_split[1], sp_split[2]) = <<"/", "b">>

\* C30: when the source file cannot be opened, _copy_file returns exactly
\* one error, the one of the source, and raises nothing; it has opened no
\* destination file, and every destination path holds what it held before,
\* content and modification time.
C30_SourceOpenFailureLeavesDestinations ==
    (CopyFileEnded /\ cf_env.src_open # "ok") =>
        /\ CopyFileOutcome.raised = "none"
        /\ Len(CopyFileOutcome.errors) = 1
        /\ CopyFileOutcome.errors[1] = OpenFileError(cf_env.src_open, 0)
        /\ OpenedDests(CopyFileOutcome) = {}
        /\ CopyFileOutcome.nodes = cf_dsts

\* The source file was not found; of the two destinations, which open()
\* would have accepted, the first held an older file and still holds it.
C30_Witness ==
    /\ CopyFileEnded
    /\ cf_env.src_open = "FileNotFoundError"
    /\ Len(cf_dsts) = 2
    /\ \A i \in 1..2 : cf_env.dst_open[i] = "ok"
    /\ cf_dsts[1] = FileNode(StaleData, 1)
    /\ CopyFileOutcome.nodes[1] = FileNode(StaleData, 1)
    /\ CopyFileOutcome.errors = <<ErrorOf("UnexpectedError", 0)>>

\* The only failures of the step are failures of its destinations: of
\* open() or of a write.
OnlyDestinationFailures ==
    /\ cf_env.src_open = "ok"
    /\ ~cf_env.stat_fails
    /\ cf_env.read_fault = NoReadFault
    /\ cf_env.copystat_fault = 0

\* C29: a failure of a destination during a copy step (its file cannot be
\* opened, a write is short, a write raises) is in the error list that the
\* step returns, and the step raises nothing.
C29_ErrorsRecordedNotRaised ==
    (CopyFileEnded /\ OnlyDestinationFailures) =>
        /\ CopyFileOutcome.raised = "none"
        /\ \A i \in 1..Len(cf_dsts) :
              cf_env.dst_open[i] # "ok" =>
                  \E e \in 1..Len(CopyFileOutcome.errors) :
                      CopyFileOutcome.errors[e] = OpenFileError(cf_env.dst_open[i], i)
        /\ WriteWentWrong =>
              \E e \in 1..Len(CopyFileOutcome.errors) :
                  CopyFileOutcome.errors[e].dest = cf_env.write_fault.dest

\* The first write to the second destination raised, after the file of the
\* first destination could not be opened: the step raised OSError and
\* returned no error list.
C29_WriteExceptionRaised ==
    /\ CopyFileEnded
    /\ OnlyDestinationFailures
    /\ Len(cf_dsts) = 2
    /\ cf_env.dst_open = <<"PermissionError", "ok">>
    /\ cf_env.write_fault = [dest |-> 2, at |-> 1, kind |-> "raise"]
    /\ CopyFileOutcome.raised = "OSError"
    /\ CopyFileOutcome.errors = <<>>

(***************************************************************************)
(* Properties of single steps of a run.                                    *)
(***************************************************************************)
\* The predicate of the run is false for the path rel at every destination.
FilteredEverywhere(rel) ==
    \A i \in 1..Len(dest_trees) :
        ~IfSourceWasModifiedMoreRecently(source_tree[rel],
                                         PredicateDest(dest_trees[i], rel))

\* The step of the copy loop for the next path of the walker is taken.
StepTaken == pc = "copy" /\ iterator # <<>> /\ iterator' = Tail(iterator)

ReadDenied ==
    /\ CopyFileEnded
    /\ cf_env.src_open = "ok"
    /\ cf_env.read_fault.kind = "PermissionError"
    /\ cf_env.read_fault.at >= 1
    /\ CopyFileOutcome.reads >= cf_env.read_fault.at

\* C32: when a read of the source fails with PermissionError, the step
\* raises nothing and returns an error list that holds an
\* AccessDeniedError for every destination whose file was open, and the
\* source handle and every destination handle are closed.
C32_ReadDeniedRecorded ==
    ReadDenied =>
        /\ CopyFileOutcome.raised = "none"
        /\ \A i \in 1..Len(cf_dsts) :
              cf_env.dst_open[i] = "ok" =>
                  \E e \in 1..Len(CopyFileOutcome.errors) :
                      CopyFileOutcome.errors[e] = ErrorOf("AccessDeniedError", i)
        /\ CopyFileOutcome.src_closed
        /\ \A i \in 1..Len(cf_dsts) : CopyFileOutcome.files[i].h # "open"

\* The first read of the source was denied with both destination files
\* open: the step raised TypeError and returned no error list.
C32_ReadDeniedRaises ==
    /\ ReadDenied
    /\ cf_env.read_fault.at = 1
    /\ Len(cf_dsts) = 2
    /\ \A i \in 1..2 : cf_env.dst_open[i] = "ok"
    /\ CopyFileOutcome.raised = "TypeError"
    /\ CopyFileOutcome.errors = <<>>
    /\ CopyFileOutcome.src_closed

\* shutil.copystat raised for a destination that is a file after the
\* writes.
MetadataFailed ==
    /\ CopyFileEnded
    /\ cf_env.copystat_fault \in 1..Len(cf_dsts)
    /\ IsFile(CopyFileOutcome.nodes[cf_env.copystat_fault])

\* C33: when copying the metadata to a destination fails, the step raises
\* nothing and returns the errors recorded for its destinations.
C33_MetadataFailureNotFatal ==
    MetadataFailed =>
        /\ CopyFileOutcome.raised = "none"
        /\ CopyFileOutcome.errors = ErrorsOf(CopyFileOutcome.files)

\* The file was written completely to the only destination, copystat
\* raised for it, and the step raised the exception.
C33_MetadataFailureRaises ==
    /\ MetadataFailed
    /\ Len(cf_dsts) = 1
    /\ cf_env.dst_open[1] = "ok"
    /\ Len(cf_src.data) = MaxFileLen
    /\ CopyFileOutcome.nodes[1].data = cf_src.data
    /\ CopyFileOutcome.raised = "OSError"
    /\ CopyFileOutcome.errors = <<>>

\* C34: when _copy_file ends after it opened the source, by return or by
\* an exception, the source handle is closed and so is every destination
\* handle it opened.
C34_HandlesClosed ==
    (CopyFileEnded /\ cf_env.src_open = "ok") =>
        /\ CopyFileOutcome.src_closed
        /\ \A i \in 1..Len(cf_dsts) : CopyFileOutcome.files[i].h # "open"

\* os.stat(source), called after the handles were opened, raised: the
\* exception left the step with the source and a destination still open.
C34_StatFailureLeavesOpen ==
    /\ CopyFileEnded
    /\ cf_env.src_open = "ok"
    /\ cf_env.stat_fails
    /\ CopyFileOutcome.raised = "OSError"
    /\ ~CopyFileOutcome.src_closed
    /\ CopyFileOutcome.files[1].h = "open"

\* The file at rel of destination i was opened for writing by a run that
\* did not finish it: its time is the time of the write, not the time of
\* the source that copystat gives it, and its bytes are not those of the
\* source.
PartlyWritten(i, rel) ==
    /\ IsFile(dest_trees[i][rel])
    /\ dest_trees[i][rel].mtime = NowTime
    /\ dest_trees[i][rel].data # source_tree[rel].data

\* C35: after a run that failed while it copied, a second run over the
\* unchanged source that completes leaves no file of a destination partly
\* written: every file the first run had begun holds the bytes of the
\* source.
C35_NextRunReconciles ==
    (/\ Len(history) = 2 /\ pc = "finished"
     /\ history[1].raised
     /\ RunCompleted(2))
    => \A i \in 1..Len(dest_trees) : \A rel \in SourceFiles :
          ~PartlyWritten(i, rel)

\* The first run raised after the first block of f had been written; the
\* second run completed without opening a file, and the destination still
\* holds the first block only.
C35_PartialFileKept ==
    /\ Len(history) = 2 /\ pc = "finished"
    /\ history[1].raised
    /\ RunCompleted(2)
    /\ history[2].writes = 0
    /\ history[2].errors = 0
    /\ source_tree[<<"f">>] = FileNode(SourceData, MaxMtime)
    /\ dest_trees[1][<<"f">>] =
          FileNode(SubSeq(SourceData, 1, ReadBlockSize), NowTime)

\* The entries of the delete set of the destination being pruned, as
\* recursiveprune gathered them when the prune of that destination began.
GatheredToDelete ==
    ToDelete(source_tree, before_prune[pruning.dest])

\* The entry rel of the delete set is file-like: a file or a link.
FileLikeEntry(rel) ==
    LET n == before_prune[pruning.dest][rel]
    IN  IsLink(n) \/ IsFile(n)

\* C36: in the prune phase for one destination every file-like entry of
\* the delete set (file or link) is deleted before any directory of the
\* delete set: as long as a file-like entry is still to be deleted, no
\* directory of the delete set has been taken by the loop.
C36_FilesBeforeDirectories ==
    pc = "prune" =>
        \A rel \in pruning.todelete :
            FileLikeEntry(rel) =>
                \A dir \in GatheredToDelete :
                    ~FileLikeEntry(dir) => dir \in pruning.todelete

\* The directory d of the delete set was removed with everything below it
\* while the file d/g of the delete set is still to be deleted.
C36_DirectoryBeforeItsFile ==
    /\ pc = "prune"
    /\ <<"d">> \in GatheredToDelete
    /\ ~FileLikeEntry(<<"d">>)
    /\ <<"d">> \notin pruning.todelete
    /\ <<"d", "g">> \in pruning.todelete
    /\ FileLikeEntry(<<"d", "g">>)
    /\ ~PathExists(dest_trees[pruning.dest][<<"d", "g">>])

(***************************************************************************)
(* Coverage of the walk                                                    *)
(***************************************************************************)
\* The paths of the subtree: the root and every entry that exists.
SubtreePaths ==
    {p \in WalkPaths : walk_tree[p] # "none"}

\* How many times the path p was yielded.
TimesYielded(p) ==
    Cardinality({i \in 1..Len(yielded) : yielded[i] = p})

\* C37: when the walk of a finite tree has ended, every directory and
\* every file of the subtree was yielded exactly once, links to files and
\* links to directories included, and nothing else was yielded.
C37_WalkerCoverage ==
    walk_done =>
        /\ \A p \in SubtreePaths : TimesYielded(p) = 1
        /\ \A i \in 1..Len(yielded) : yielded[i] \in SubtreePaths

\* The walk has ended and the entry a of the root, a link to a directory,
\* was never yielded, while the file and the directory next to it were.
C37_LinkToDirectoryMissing ==
    /\ walk_done
    /\ walk_tree[<<"a">>] = "linkdir"
    /\ walk_tree[<<"b">>] = "file"
    /\ walk_tree[<<"c">>] = "dir"
    /\ TimesYielded(<<"a">>) = 0
    /\ TimesYielded(<<"b">>) = 1
    /\ TimesYielded(<<"c">>) = 1

(***************************************************************************)
(* The backup of one profile: one driver per source, then the prune of     *)
(* the profile (prune_backup).  In the window (ExecuteBackupWidget) the    *)
(* drivers are threads and the prune is started by the slot that receives  *)
(* their exec_finished signals; on the command line (run_backup) the       *)
(* drivers are executed one after the other and the prune follows.         *)
(***************************************************************************)
\* QBackupExecution.__init__ and startExecution: the thread was added to
\* the thread manager.
NewExecution ==
    [thread |-> "added", complete |-> FALSE, hidden |-> FALSE]

\* One execution per valid source: at least one, or nothing is run.
InitExec ==
    /\ frontend \in {"ui", "cli"}
    /\ executions \in UNION {[1..n -> {NewExecution}] : n \in 1..MaxDrivers}
    /\ posted = <<>>
    /\ run_pc = IF frontend = "cli" THEN "loop" ELSE "window"
    /\ prunestarts = 0

\* The thread manager starts the thread of a driver.
thread_start ==
    /\ frontend = "ui"
    /\ \E x \in 1..Len(executions) :
          /\ executions[x].thread = "added"
          /\ executions' = [executions EXCEPT ![x].thread = "alive"]
    /\ UNCHANGED <<frontend, posted, run_pc, prunestarts>>
    /\ UNCHANGED nonExecVars

\* BackupThread.run ends: raiseFinished emits exec_finished, which is
\* queued for the thread of the widgets.
exec_finished ==
    /\ frontend = "ui"
    /\ \E x \in 1..Len(executions) :
          /\ executions[x].thread = "alive"
          /\ executions' = [executions EXCEPT ![x].thread = "ended"]
          /\ posted' = Append(posted, x)
    /\ UNCHANGED <<frontend, run_pc, prunestarts>>
    /\ UNCHANGED nonExecVars

\* The first loop of _remove_completed: every complete execution is hidden.
HideCompleted(execs) ==
    [x \in 1..Len(execs) |->
        IF execs[x].complete THEN [execs[x] EXCEPT !.hidden = TRUE]
        ELSE execs[x]]

\* A slip of _remove_completed: the prune is started as soon as one
\* execution is hidden.
StartsPruneWhenOneHidden(execs) ==
    \E x \in 1..Len(execs) : execs[x].hidden

\* _remove_completed: len(tempexecs) == 0, no execution is left that is
\* not hidden.
StartsPrune(execs) ==
    \A x \in 1..Len(execs) : execs[x].hidden

\* The main thread delivers the oldest queued signal: _backup_finished sets
\* complete and emits removeself, and _remove_completed hides what is
\* complete and starts the prune thread when nothing is left.
backup_finished ==
    /\ frontend = "ui"
    /\ posted # <<>>
    /\ posted' = Tail(posted)
    /\ executions' = HideCompleted([executions EXCEPT
                                       ![Head(posted)].complete = TRUE])
    /\ prunestarts' = IF StartsPrune(executions')
                      THEN prunestarts + 1 ELSE prunestarts
    /\ UNCHANGED <<frontend, run_pc>>
    /\ UNCHANGED nonExecVars

\* run_backup, `for b in backups: b.execute()`: the next driver is run to
\* its end.
cli_execute ==
    /\ frontend = "cli"
    /\ run_pc = "loop"
    /\ \E x \in 1..Len(executions) :
          /\ executions[x].thread = "added"
          /\ \A y \in 1..(x - 1) : executions[y].thread = "ended"
          /\ executions' = [executions EXCEPT ![x].thread = "ended",
                                              ![x].complete = TRUE]
    /\ UNCHANGED <<frontend, posted, run_pc, prunestarts>>
    /\ UNCHANGED nonExecVars

\* run_backup after the loop: with errors listed the user is asked and may
\* stop; otherwise prune_backup is called.
cli_prune ==
    /\ frontend = "cli"
    /\ run_pc = "loop"
    /\ \A x \in 1..Len(executions) : executions[x].thread = "ended"
    /\ \E stop \in BOOLEAN :
          /\ run_pc' = IF stop THEN "aborted" ELSE "completed"
          /\ prunestarts' = IF stop THEN prunestarts ELSE prunestarts + 1
    /\ UNCHANGED <<frontend, executions, posted>>
    /\ UNCHANGED nonExecVars

NextExec ==
    \/ thread_start
    \/ exec_finished
    \/ backup_finished
    \/ cli_execute
    \/ cli_prune

InitSpecExec == InitExec /\ IdleMap /\ IdleCtor /\ IdleFile /\ IdleRun /\ IdlePool /\ IdleIgnore /\ IdleProfile /\ IdleJson /\ IdleLoad /\ IdleWalk /\ IdlePath /\ IdleTouch

SpecExec == InitSpecExec /\ [][NextExec]_vars

\* C38: the prune of the profile is started at most once in a run, and
\* when it was started every driver of the run has ended, whatever the
\* order in which the drivers ended and their signals were received.
C38_PruneAfterAllDrivers ==
    /\ prunestarts <= 1
    /\ prunestarts >= 1 =>
          \A x \in 1..Len(executions) : executions[x].thread = "ended"

\* In the window the signals of three drivers were all received, every
\* execution is hidden and the prune was started.
C38_Witness ==
    /\ frontend = "ui"
    /\ Len(executions) = 3
    /\ posted = <<>>
    /\ \A x \in 1..3 : executions[x].hidden
    /\ prunestarts = 1

(***************************************************************************)
(* The paths that the steps of a constructed copier, and the deletions of  *)
(* the prune that follows, change in the filesystem.                       *)
(***************************************************************************)
\* The path p and the directories above it, the filesystem root excepted.
UpTo(p) ==
    {SubSeq(p, 1, k) : k \in {Len(p)} \cup
                             {i - 1 : i \in {j \in 2..Len(p) : p[j] = Sep}}}

\* _copy_fsobject: new_dests for the path that the walker yields for the
\* names below the source.
NewDests(c, names) ==
    IF JoinBelow(c._source, names) # c._source
    THEN [i \in 1..Len(c._destinations) |->
            PathJoin(c._destinations[i],
                     SplitPath(c._source, JoinBelow(c._source, names))[2])]
    ELSE c._destinations

\* What one step may create or write: each new destination path (the
\* file written and given the metadata, or the directory made) and the
\* directories above it that _make_parent_folders finds missing.
CopyTouches(c, names, dirs) ==
    UNION {UpTo(NewDests(c, names)[i]) \ dirs : i \in 1..Len(c._destinations)}

\* recursiveprune.__init__: the directory that is walked for destination.
PruneRoot(args, destination) ==
    IF args.newdestname.kind = "None"
    THEN PathJoin(destination, BaseName(args.root_path.val))
    ELSE PathJoin(destination, args.newdestname.val)

\* The entries below the source and below D/map(S) that are followed, as
\* the names from the directory down: a, a/A, ab, 001/a and b/a/ab.
BelowRoot ==
    { <<>>,
      << <<"a">> >>,
      << <<"a">>, <<"A">> >>,
      << <<"a", "b">> >>,
      << <<"0", "0", "1">>, <<"a">> >>,
      << <<"b">>, <<"a">>, <<"a", "b">> >> }

\* The directory /a as the user may type it in the path list of a profile
\* (EditPathListWidget._apply_edit stores the text as it is).
TypedSource == <<"/", "a", "/">>

\* The arguments of the constructor; the source may be the typed one.
TouchArgs ==
    CtorArgs \cup
    {[a EXCEPT !.root_path = PyStr(TypedSource)] :
        a \in {b \in CtorArgs : b.root_path = PyStr(<<"/", "a">>)}}

\* os.path.isdir holds for the typed form of a directory too.
IsDirPaths(dirs) ==
    IF <<"/", "a">> \in dirs THEN dirs \cup {TypedSource} ELSE dirs

InitTouch ==
    /\ ctor_args \in TouchArgs
    /\ ctor_dirs \in {IsDirPaths(d) : d \in {e \in SUBSET CtorPaths :
                                                 ParentClosed(e)}}
    /\ ctor_result = "pending"
    /\ copier = NoCopier
    /\ touched = [op |-> "none", paths |-> {}]

\* One step of a constructed copier, for any path below the source.
copy_touch ==
    /\ ctor_result = "ok"
    /\ Len(copier._destinations) > 0
    /\ \E names \in BelowRoot :
          touched' = [op |-> "copy",
                      paths |-> CopyTouches(copier, names, ctor_dirs)]
    /\ UNCHANGED nonTouchVars

\* One deletion of the prune that follows the copy: _delete_path for a
\* path that the walk of a destination found below its root.
prune_touch ==
    /\ ctor_result = "ok"
    /\ \E i \in 1..Len(AsList(ctor_args.destination_folders)) :
       \E names \in BelowRoot \ {<<>>} :
          touched' = [op |-> "delete",
                      paths |-> {JoinBelow(
                          PruneRoot(ctor_args,
                                    AsList(ctor_args.destination_folders)[i]),
                          names)}]
    /\ UNCHANGED nonTouchVars

NextTouch ==
    \/ recursivecopy_init
    \/ copy_touch
    \/ prune_touch

InitSpecTouch == InitTouch /\ IdleMap /\ IdleFile /\ IdleRun /\ IdlePool /\ IdleIgnore /\ IdleProfile /\ IdleJson /\ IdleLoad /\ IdleWalk /\ IdlePath /\ IdleExec

SpecTouch == InitSpecTouch /\ [][NextTouch]_vars

\* The path p is the directory s or is located under it.
AtOrUnder(s, p) == p = s \/ LocatedUnder(s, p)

\* C39: for a copier that was constructed, no path that a copy step
\* creates or writes and no path that the prune deletes is the source or
\* located under it; each is D/map(S) for a destination D of the copier,
\* or located under it.
C39_SourceReadOnly ==
    \A p \in touched.paths :
        /\ ~AtOrUnder(copier._source, p)
        /\ \E i \in 1..Len(copier._destinations) :
              AtOrUnder(copier._destinations[i], p)

\* The copier of the source typed as /a/ into /q under the name 001 has
\* copied the file b/a/ab of the source: it wrote /a/ab, a path of the
\* source and of no destination.
C39_WritesIntoSource ==
    /\ ctor_result = "ok"
    /\ copier._source = TypedSource
    /\ copier._destinations = << <<"/", "q", "/", "0", "0", "1">> >>
    /\ touched.op = "copy"
    /\ touched.paths = {<<"/", "a", "/", "a", "b">>}

\* With the source given without a separator at its end, /a/b copied into
\* /ab and /q under the name 001, a file two directories down is written
\* in each destination, below a directory made there.
C39_WritesIntoDestinations ==
    /\ ctor_result = "ok"
    /\ copier._source = <<"/", "a", "/", "b">>
    /\ touched.op = "copy"
    /\ <<"/", "q", "/", "0", "0", "1", "/", "a", "/", "A">> \in touched.paths
    /\ <<"/", "a", "b", "/", "0", "0", "1", "/", "a">> \in touched.paths

\* The prune of that backup deleted a path of a destination.
C39_PruneDeletes ==
    /\ ctor_result = "ok"
    /\ copier._source = <<"/", "a", "/", "b">>
    /\ touched.op = "delete"
    /\ touched.paths = {<<"/", "q", "/", "0", "0", "1", "/", "a", "b">>}

=============================================================================
